---------------------------- MODULE Spec2Model ----------------------------
(***************************************************************************)
(* A model of anvil-nbt: the modified UTF-8 text codec (nbt/mutf8.rs), the *)
(* NBT tag codec (nbt/parse.rs, nbt/encode.rs) and the Anvil region        *)
(* container (anvil/access.rs, anvil/encode.rs).                           *)
(*                                                                         *)
(* Representation.  A byte is a number in 0..255 and a byte buffer a       *)
(* sequence of bytes.  A Rust String is the sequence of its Unicode scalar *)
(* values.  An NbtTag is the pair <<type id, value>>; a Float or Double    *)
(* carries its bit pattern.  A Compound's value is the sequence of its     *)
(* IndexMap entries <<name, tag>>, in insertion order.                     *)
(***************************************************************************)
EXTENDS Integers, Sequences, FiniteSets, TLC

(***************************************************************************)
(* Machine arithmetic                                                      *)
(***************************************************************************)
RECURSIVE BitAnd(_, _)
BitAnd(a, b) ==
  IF a = 0 \/ b = 0 THEN 0
  ELSE (a % 2) * (b % 2) + 2 * BitAnd(a \div 2, b \div 2)

RECURSIVE BitOr(_, _)
BitOr(a, b) ==
  IF a = 0 THEN b
  ELSE IF b = 0 THEN a
  ELSE (IF a % 2 = 1 \/ b % 2 = 1 THEN 1 ELSE 0) + 2 * BitOr(a \div 2, b \div 2)

Shl(a, k) == a * 2^k

Shr(a, k) == a \div 2^k

\* `x as u8`, `x as u16`: keep the low bits
AsU8(x) == x % 256

AsU16(x) == x % 65536

\* reinterpret an unsigned value of w bits as two's complement
AsSigned(x, w) == IF x >= 2^(w - 1) THEN x - 2^w ELSE x

\* zero-based indexing of a slice
At(data, i) == data[i + 1]

\* data[i..], zero-based
DropBytes(data, i) == SubSeq(data, i + 1, Len(data))

\* data[..n]
TakeBytes(data, n) == SubSeq(data, 1, n)

RECURSIVE Flatten(_)
Flatten(ss) == IF ss = <<>> THEN <<>> ELSE Head(ss) \o Flatten(Tail(ss))

SeqsUpTo(S, n) == UNION {[1..k -> S] : k \in 0..n}

(***************************************************************************)
(* nbt/mutf8.rs                                                            *)
(***************************************************************************)
\* char::from_u32: None for a surrogate or a value above U+10FFFF
IsChar(val) == val >= 0 /\ val <= 1114111 /\ ~(val >= 55296 /\ val <= 57343)

TextOk(s) == [ok |-> TRUE, s |-> s]

TextErr == [ok |-> FALSE, s |-> <<>>]

\* the loop of decode_mutf8, from index i with `result` decoded so far
RECURSIVE DecodeLoop(_, _, _)
DecodeLoop(data, i, result) ==
  IF i >= Len(data) THEN TextOk(result)
  ELSE LET b == At(data, i) IN
    IF b < 128 THEN DecodeLoop(data, i + 1, Append(result, b))
    ELSE IF BitAnd(b, 224) = 192 THEN
      IF i + 1 >= Len(data) THEN TextErr
      ELSE LET b2 == At(data, i + 1) IN
        IF BitAnd(b2, 192) # 128 THEN TextErr
        ELSE LET val == BitOr(Shl(BitAnd(b, 31), 6), BitAnd(b2, 63)) IN
          IF IsChar(val) THEN DecodeLoop(data, i + 2, Append(result, val))
          ELSE TextErr
    ELSE IF BitAnd(b, 240) = 224 THEN
      IF i + 2 >= Len(data) THEN TextErr
      ELSE LET b2 == At(data, i + 1)
               b3 == At(data, i + 2) IN
        IF BitAnd(b2, 192) # 128 \/ BitAnd(b3, 192) # 128 THEN TextErr
        ELSE LET val == BitOr(BitOr(Shl(BitAnd(b, 15), 12), Shl(BitAnd(b2, 63), 6)),
                              BitAnd(b3, 63))
                 paired ==
                   /\ val >= 55296 /\ val <= 56319
                   /\ i + 5 < Len(data)
                   /\ At(data, i + 3) = 237
                   /\ BitAnd(At(data, i + 4), 240) = 176
                   /\ LET val2 == BitOr(BitOr(Shl(BitAnd(At(data, i + 3), 15), 12),
                                              Shl(BitAnd(At(data, i + 4), 63), 6)),
                                        BitAnd(At(data, i + 5), 63))
                      IN val2 >= 56320 /\ val2 <= 57343
             IN
          IF paired THEN
            LET val2 == BitOr(BitOr(Shl(BitAnd(At(data, i + 3), 15), 12),
                                    Shl(BitAnd(At(data, i + 4), 63), 6)),
                              BitAnd(At(data, i + 5), 63))
                high == val - 55296
                low == val2 - 56320
                codepoint == 65536 + BitOr(Shl(high, 10), low)
            IN IF IsChar(codepoint)
               THEN DecodeLoop(data, i + 6, Append(result, codepoint))
               ELSE TextErr
          ELSE IF IsChar(val) THEN DecodeLoop(data, i + 3, Append(result, val))
          ELSE TextErr
    ELSE TextErr

decode_mutf8(data) ==
  IF \A k \in 1..Len(data) : data[k] > 0 /\ data[k] < 128
  THEN TextOk(data)
  ELSE DecodeLoop(data, 0, <<>>)

\* a char taken as one code unit, whatever its value
CharAsOneUnit(c) == <<c>>

\* str::encode_utf16 of one char
CharUtf16(c) ==
  IF c < 65536 THEN <<c>>
  ELSE <<55296 + Shr(c - 65536, 10), 56320 + BitAnd(c - 65536, 1023)>>

encode_utf16(s) == Flatten([k \in 1..Len(s) |-> CharUtf16(s[k])])

\* the 2-byte form taken for 0x800 too
EncodeUnitOffByOne(c) ==
  IF c = 0 THEN <<192, 128>>
  ELSE IF c < 128 THEN <<AsU8(c)>>
  ELSE IF c <= 2048 THEN
    <<BitOr(192, AsU8(Shr(c, 6))), BitOr(128, AsU8(BitAnd(c, 63)))>>
  ELSE
    <<BitOr(224, AsU8(Shr(c, 12))),
      BitOr(128, AsU8(BitAnd(Shr(c, 6), 63))),
      BitOr(128, AsU8(BitAnd(c, 63)))>>

\* NUL written as the single byte 00, as standard UTF-8 does
EncodeUnitPlainNul(c) ==
  IF c < 128 THEN <<AsU8(c)>>
  ELSE IF c < 2048 THEN
    <<BitOr(192, AsU8(Shr(c, 6))), BitOr(128, AsU8(BitAnd(c, 63)))>>
  ELSE
    <<BitOr(224, AsU8(Shr(c, 12))),
      BitOr(128, AsU8(BitAnd(Shr(c, 6), 63))),
      BitOr(128, AsU8(BitAnd(c, 63)))>>

\* the body of encode_mutf8's loop for one UTF-16 code unit
EncodeUnit(c) ==
  IF c = 0 THEN <<192, 128>>
  ELSE IF c < 128 THEN <<AsU8(c)>>
  ELSE IF c < 2048 THEN
    <<BitOr(192, AsU8(Shr(c, 6))), BitOr(128, AsU8(BitAnd(c, 63)))>>
  ELSE
    <<BitOr(224, AsU8(Shr(c, 12))),
      BitOr(128, AsU8(BitAnd(Shr(c, 6), 63))),
      BitOr(128, AsU8(BitAnd(c, 63)))>>

encode_mutf8(s) ==
  LET units == encode_utf16(s)
  IN Flatten([k \in 1..Len(units) |-> EncodeUnit(units[k])])

(***************************************************************************)
(* Wide integers.  Numbers are kept within 32 signed bits, so an           *)
(* i32 is itself, a u32 is the pair <<high 16 bits, low 16 bits>>, an i64  *)
(* is [hi |-> i32 of the upper word, lo |-> u32 of the lower word] and a   *)
(* u64 is the pair <<u32, u32>> of its words.                              *)
(***************************************************************************)
\* u16::from_le_bytes
U16FromLe(b) == b[2] * 256 + b[1]

\* u16::from_be_bytes
U16FromBe(b) == b[1] * 256 + b[2]

\* i32::from_be_bytes
I32FromBe(b) == AsSigned(b[1], 8) * 16777216 + b[2] * 65536 + b[3] * 256 + b[4]

\* u32 from four big-endian bytes (the shifts and ors of anvil/access.rs)
U32FromBe(b) == <<BitOr(Shl(b[1], 8), b[2]), BitOr(Shl(b[3], 8), b[4])>>

\* i64::from_be_bytes
I64FromBe(b) == [hi |-> I32FromBe(SubSeq(b, 1, 4)), lo |-> U32FromBe(SubSeq(b, 5, 8))]

\* `v as u32` of an i32 and `v as u64` of an i64: the same bits
I32AsU32(v) == <<(v \div 65536) % 65536, v % 65536>>

I64AsU64(v) == <<I32AsU32(v.hi), v.lo>>

\* to_be_bytes
U16ToBe(n) == <<(n \div 256) % 256, n % 256>>

\* the bytes of an i32 in little-endian order
I32ToLe(v) == <<v % 256, (v \div 256) % 256, (v \div 65536) % 256, (v \div 16777216) % 256>>

I32ToBe(v) == <<(v \div 16777216) % 256, (v \div 65536) % 256, (v \div 256) % 256, v % 256>>

U32ToBe(u) == U16ToBe(u[1]) \o U16ToBe(u[2])

I64ToBe(v) == I32ToBe(v.hi) \o U32ToBe(v.lo)

U64ToBe(u) == U32ToBe(u[1]) \o U32ToBe(u[2])

(***************************************************************************)
(* A usize (64-bit target).  Every buffer of the model is shorter than     *)
(* 2^31 bytes, so a usize is [huge |-> FALSE, n |-> its value] below 2^31  *)
(* and [huge |-> TRUE, n |-> 0] from 2^31 on: such a length exceeds every  *)
(* slice length it is compared with.                                       *)
(***************************************************************************)
Usize(n) == [huge |-> FALSE, n |-> n]

UsizeHuge == [huge |-> TRUE, n |-> 0]

\* `v as usize` of an i32: sign extension sends a negative v to 2^64 - |v|
I32AsUsize(v) == IF v < 0 THEN UsizeHuge ELSE Usize(v)

\* `len * k` for k in {4, 8}, len from I32AsUsize: only a sign-extended
\* negative len overflows 64 bits; with overflow checks (oc) that panics,
\* without them it wraps to 2^64 - k*|v|, still huge
UsizeMulOverflows(len, k) == len.huge

UsizeMul(len, k) ==
  IF len.huge \/ len.n > 2147483647 \div k THEN UsizeHuge ELSE Usize(len.n * k)

(***************************************************************************)
(* nbt/mod.rs: NbtTag                                                      *)
(***************************************************************************)
Tag(t, v) == <<t, v>>

TagEnd == Tag(0, 0)

get_type_id(tag) == tag[1]

Entry(name, tag) == <<name, tag>>

EntryName(e) == e[1]

EntryTag(e) == e[2]

\* an insert that moves an existing key to the end
IndexMapInsertMoved(map, name, payload) ==
  Append(SelectSeq(map, LAMBDA e : EntryName(e) # name), Entry(name, payload))

\* IndexMap::insert: a new key is appended, an existing key keeps its place
\* and takes the new value
IndexMapInsert(map, name, payload) ==
  IF \E i \in 1..Len(map) : EntryName(map[i]) = name
  THEN [i \in 1..Len(map) |-> IF EntryName(map[i]) = name THEN Entry(name, payload) ELSE map[i]]
  ELSE Append(map, Entry(name, payload))

(***************************************************************************)
(* nbt/parse.rs                                                            *)
(***************************************************************************)
NoError == [kind |-> "Ok", id |-> 0]

UnexpectedEof == [kind |-> "UnexpectedEof", id |-> 0]

InvalidTag(t) == [kind |-> "InvalidTag", id |-> t]

InvalidString == [kind |-> "InvalidString", id |-> 0]

\* not a ParseError: the call does not return, the thread panics
Panicked == [kind |-> "Panic", id |-> 0]

NoValue == Tag(-1, 0)

\* the outcome of a read: the error, or the value and the reader's data after it
Ok(v, rest) == [err |-> NoError, val |-> v, rest |-> rest]

Fail(e) == [err |-> e, val |-> NoValue, rest |-> <<>>]

IsOk(r) == r.err.kind = "Ok"

\* a read that leaves the byte it returns in the reader
PeekU8(data) ==
  IF Len(data) = 0 THEN Fail(UnexpectedEof)
  ELSE Ok(At(data, 0), data)

read_u8(data) ==
  IF Len(data) = 0 THEN Fail(UnexpectedEof)
  ELSE Ok(At(data, 0), DropBytes(data, 1))

read_i8(data) ==
  LET r == read_u8(data) IN IF IsOk(r) THEN Ok(AsSigned(r.val, 8), r.rest) ELSE r

read_u16(data) ==
  IF Len(data) < 2 THEN Fail(UnexpectedEof)
  ELSE Ok(U16FromBe(TakeBytes(data, 2)), DropBytes(data, 2))

read_i16(data) ==
  LET r == read_u16(data) IN IF IsOk(r) THEN Ok(AsSigned(r.val, 16), r.rest) ELSE r

read_i32(data) ==
  IF Len(data) < 4 THEN Fail(UnexpectedEof)
  ELSE Ok(I32FromBe(TakeBytes(data, 4)), DropBytes(data, 4))

read_i64(data) ==
  IF Len(data) < 8 THEN Fail(UnexpectedEof)
  ELSE Ok(I64FromBe(TakeBytes(data, 8)), DropBytes(data, 8))

read_f32(data) ==
  LET r == read_i32(data) IN IF IsOk(r) THEN Ok(I32AsU32(r.val), r.rest) ELSE r

read_f64(data) ==
  LET r == read_i64(data) IN IF IsOk(r) THEN Ok(I64AsU64(r.val), r.rest) ELSE r

\* len is a usize
read_bytes(data, len) ==
  IF len.huge \/ Len(data) < len.n THEN Fail(UnexpectedEof)
  ELSE Ok(TakeBytes(data, len.n), DropBytes(data, len.n))

parse_nbt_string(data) ==
  LET l == read_u16(data) IN
  IF ~IsOk(l) THEN Fail(l.err)
  ELSE LET b == read_bytes(l.rest, Usize(l.val)) IN
    IF ~IsOk(b) THEN Fail(b.err)
    ELSE LET s == decode_mutf8(b.val) IN
      IF s.ok THEN Ok(s.s, b.rest) ELSE Fail(InvalidString)

\* i32::from_be_bytes (w = 4) or i64::from_be_bytes (w = 8)
FromBeBytes(chunk, w) == IF w = 4 THEN I32FromBe(chunk) ELSE I64FromBe(chunk)

\* bytes.chunks_exact(w) mapped through from_be_bytes
ChunksExact(bytes, w) ==
  [k \in 1..(Len(bytes) \div w) |-> FromBeBytes(SubSeq(bytes, (k - 1) * w + 1, k * w), w)]

\* the IntArray and LongArray arms of parse_tag_payload: elements of w bytes
ParseArray(data, t, w, oc) ==
  LET l == read_i32(data) IN
  IF ~IsOk(l) THEN Fail(l.err)
  ELSE LET len == I32AsUsize(l.val) IN
    IF oc /\ UsizeMulOverflows(len, w) THEN Fail(Panicked)
    ELSE LET b == read_bytes(l.rest, UsizeMul(len, w)) IN
      IF ~IsOk(b) THEN Fail(b.err)
      ELSE Ok(Tag(t, ChunksExact(b.val, w)), b.rest)

\* a catch-all arm that yields End for an unknown type id
UnknownTypeAsEnd(data, type_id) == Ok(TagEnd, data)

\* the `_` arm of parse_tag_payload
UnknownType(data, type_id) == Fail(InvalidTag(type_id))

\* Vec::<NbtTag>::with_capacity(len) panics with "capacity overflow" when
\* len * size_of::<NbtTag>() exceeds isize::MAX, as for every huge len
WithCapacityPanics(len) == len.huge

\* the `len` of Vec::with_capacity(len) in the List arm, on a payload whose
\* element type and count can be read: storage for len elements is reserved
\* before any element is read
ListCapacity(data) == I32AsUsize(I32FromBe(SubSeq(data, 2, 5)))

RECURSIVE parse_tag_payload(_, _, _)
RECURSIVE ParseListElements(_, _, _, _, _)
RECURSIVE ParseCompoundEntries(_, _, _)

\* the List arm's loop: n elements still to read
ParseListElements(data, element_type, n, elements, oc) ==
  IF n = 0 THEN Ok(Tag(9, elements), data)
  ELSE LET e == parse_tag_payload(data, element_type, oc) IN
    IF ~IsOk(e) THEN Fail(e.err)
    ELSE ParseListElements(e.rest, element_type, n - 1, Append(elements, e.val), oc)

\* the Compound arm's loop
ParseCompoundEntries(data, map, oc) ==
  LET tt == read_u8(data) IN
  IF ~IsOk(tt) THEN Fail(tt.err)
  ELSE IF tt.val = 0 THEN Ok(Tag(10, map), tt.rest)
  ELSE LET name == parse_nbt_string(tt.rest) IN
    IF ~IsOk(name) THEN Fail(name.err)
    ELSE LET payload == parse_tag_payload(name.rest, tt.val, oc) IN
      IF ~IsOk(payload) THEN Fail(payload.err)
      ELSE ParseCompoundEntries(payload.rest,
                                IndexMapInsert(map, name.val, payload.val), oc)

\* oc: the build has overflow checks (debug-assertions) on
parse_tag_payload(data, type_id, oc) ==
  LET Wrap(r) == IF IsOk(r) THEN Ok(Tag(type_id, r.val), r.rest) ELSE r IN
  CASE type_id = 0 -> Ok(TagEnd, data)
    [] type_id = 1 -> Wrap(read_i8(data))
    [] type_id = 2 -> Wrap(read_i16(data))
    [] type_id = 3 -> Wrap(read_i32(data))
    [] type_id = 4 -> Wrap(read_i64(data))
    [] type_id = 5 -> Wrap(read_f32(data))
    [] type_id = 6 -> Wrap(read_f64(data))
    [] type_id = 7 ->
         LET l == read_i32(data) IN
         IF ~IsOk(l) THEN Fail(l.err)
         ELSE Wrap(read_bytes(l.rest, I32AsUsize(l.val)))
    [] type_id = 8 -> Wrap(parse_nbt_string(data))
    [] type_id = 9 ->
         LET et == read_u8(data) IN
         IF ~IsOk(et) THEN Fail(et.err)
         ELSE LET l == read_i32(et.rest) IN
           IF ~IsOk(l) THEN Fail(l.err)
           ELSE IF WithCapacityPanics(I32AsUsize(l.val)) THEN Fail(Panicked)
           ELSE ParseListElements(l.rest, et.val, l.val, <<>>, oc)
    [] type_id = 10 -> ParseCompoundEntries(data, <<>>, oc)
    [] type_id = 11 -> ParseArray(data, 11, 4, oc)
    [] type_id = 12 -> ParseArray(data, 12, 8, oc)
    [] OTHER -> UnknownType(data, type_id)

\* The outcome of parse_named_tag on the caller's slice `input`: the error
\* (or Ok), the name and tag returned, and the caller's slice afterwards
Named(err, name, tag, input) == [err |-> err, name |-> name, tag |-> tag, input |-> input]

\* a zero type id followed by a name, as write_named_tag writes End
EmptyDocumentNamed(input, rest) ==
  LET name == parse_nbt_string(rest) IN
  IF ~IsOk(name) THEN Named(name.err, <<>>, NoValue, input)
  ELSE Named(NoError, <<>>, TagEnd, name.rest)

\* if tag_type == 0 { *input = reader.data; return Ok(("".to_string(), End)) }
EmptyDocument(input, rest) == Named(NoError, <<>>, TagEnd, rest)

\* a failure that leaves the caller's slice past the type id
FailedPastTypeId(err, input) == Named(err, <<>>, NoValue, DropBytes(input, 1))

\* return Err(..) and `?`: *input is assigned on the success paths only
Failed(err, input) == Named(err, <<>>, NoValue, input)

parse_named_tag(input, oc) ==
  LET tt == read_u8(input) IN
  IF ~IsOk(tt) THEN Failed(UnexpectedEof, input)
  ELSE IF tt.val = 0 THEN EmptyDocument(input, tt.rest)
  ELSE LET name == parse_nbt_string(tt.rest) IN
    IF ~IsOk(name) THEN Failed(name.err, input)
    ELSE LET payload == parse_tag_payload(name.rest, tt.val, oc) IN
      IF ~IsOk(payload) THEN Failed(payload.err, input)
      ELSE Named(NoError, name.val, payload.val, payload.rest)

(***************************************************************************)
(* nbt/encode.rs (the writer is a Vec<u8>: no write fails)                 *)
(***************************************************************************)
\* writer.write_u16::<BigEndian>(bytes.len() as u16)
StringPrefix(len) == U16ToBe(AsU16(len))

\* writer.write_i32::<BigEndian>(v.len() as i32), for a v.len() below 2^31
CountPrefix(len) == I32ToBe(len)

write_nbt_string(s) ==
  LET bytes == encode_mutf8(s)
  IN StringPrefix(Len(bytes)) \o bytes

\* the element type of the last element instead of the first
ListHeaderOfLast(v) ==
  IF Len(v) = 0 THEN <<0>> \o I32ToBe(0)
  ELSE <<get_type_id(v[Len(v)])>> \o CountPrefix(Len(v))

\* the List arm before its loop: the element type and the count
ListHeader(v) ==
  IF Len(v) = 0 THEN <<0>> \o I32ToBe(0)
  ELSE <<get_type_id(v[1])>> \o CountPrefix(Len(v))

RECURSIVE write_tag_payload(_)
write_tag_payload(tag) ==
  CASE tag[1] = 0 -> <<>>
    [] tag[1] = 1 -> <<AsU8(tag[2])>>
    [] tag[1] = 2 -> U16ToBe(AsU16(tag[2]))
    [] tag[1] = 3 -> I32ToBe(tag[2])
    [] tag[1] = 4 -> I64ToBe(tag[2])
    [] tag[1] = 5 -> U32ToBe(tag[2])
    [] tag[1] = 6 -> U64ToBe(tag[2])
    [] tag[1] = 7 -> CountPrefix(Len(tag[2])) \o tag[2]
    [] tag[1] = 8 -> write_nbt_string(tag[2])
    [] tag[1] = 9 ->
         ListHeader(tag[2])
         \o Flatten([k \in 1..Len(tag[2]) |-> write_tag_payload(tag[2][k])])
    [] tag[1] = 10 ->
         Flatten([k \in 1..Len(tag[2]) |->
                    <<get_type_id(EntryTag(tag[2][k]))>> \o write_nbt_string(EntryName(tag[2][k]))
                    \o write_tag_payload(EntryTag(tag[2][k]))])
         \o <<0>>
    [] tag[1] = 11 ->
         CountPrefix(Len(tag[2])) \o Flatten([k \in 1..Len(tag[2]) |-> I32ToBe(tag[2][k])])
    [] tag[1] = 12 ->
         CountPrefix(Len(tag[2])) \o Flatten([k \in 1..Len(tag[2]) |-> I64ToBe(tag[2][k])])

write_named_tag(name, tag) ==
  <<get_type_id(tag)>> \o write_nbt_string(name) \o write_tag_payload(tag)

(***************************************************************************)
(* Files.  A file (a Write + Seek stream, or the bytes of a memory map) is *)
(* [len |-> its length, data |-> its non-zero bytes by zero-based offset]: *)
(* every offset below len that data does not hold is a zero byte.          *)
(***************************************************************************)
EmptyFile == [len |-> 0, data |-> [i \in {} |-> 0]]

ByteAt(f, i) == IF i \in DOMAIN f.data THEN f.data[i] ELSE 0

\* seek(SeekFrom::Start(pos)) then write_all(bytes): the bytes replace what
\* was there, and a gap past the old end reads as zeros
WriteAt(f, pos, bytes) ==
  LET span == pos..(pos + Len(bytes) - 1)
      dom == (DOMAIN f.data \ span) \cup {i \in span : bytes[i - pos + 1] # 0}
  IN [len |-> IF pos + Len(bytes) > f.len THEN pos + Len(bytes) ELSE f.len,
      data |-> [i \in dom |-> IF i \in span THEN bytes[i - pos + 1] ELSE f.data[i]]]

\* &mmap[from..to]
Slice(f, from, to) ==
  LET held == DOMAIN f.data
  IN [k \in 1..(to - from) |-> IF from + k - 1 \in held THEN f.data[from + k - 1] ELSE 0]

Zeros(n) == [k \in 1..n |-> 0]

(***************************************************************************)
(* flate2 (external).  A zlib stream is modelled by its stored form: the   *)
(* header 78 9C, one final stored block (01, LEN and its complement in     *)
(* little-endian order, the bytes) and the Adler-32 of the bytes.  The     *)
(* decoder rejects everything else and ignores what follows the stream.    *)
(***************************************************************************)
RECURSIVE Adler(_, _, _)
Adler(bytes, s1, s2) ==
  IF bytes = <<>> THEN U16ToBe(s2) \o U16ToBe(s1)
  ELSE LET n1 == (s1 + Head(bytes)) % 65521
       IN Adler(Tail(bytes), n1, (s2 + n1) % 65521)

Adler32(bytes) == Adler(bytes, 1, 0)

U16ToLe(n) == <<n % 256, (n \div 256) % 256>>

\* ZlibEncoder::new(.., Compression::default()), write_all(raw), finish()
ZlibEncode(raw) ==
  <<120, 156, 1>> \o U16ToLe(Len(raw)) \o U16ToLe(65535 - Len(raw)) \o raw
  \o Adler32(raw)

Decoded(bytes) == [ok |-> TRUE, bytes |-> bytes]

DecodeError == [ok |-> FALSE, bytes |-> <<>>]

\* ZlibDecoder::new(data).read_to_end(..)
ZlibDecode(data) ==
  IF Len(data) < 7 \/ data[1] # 120 \/ data[2] # 156 \/ data[3] # 1 THEN DecodeError
  ELSE LET n == data[4] + 256 * data[5] IN
    IF data[6] + 256 * data[7] # 65535 - n \/ Len(data) < 7 + n + 4 THEN DecodeError
    ELSE LET raw == SubSeq(data, 8, 7 + n) IN
      IF SubSeq(data, 8 + n, 11 + n) = Adler32(raw) THEN Decoded(raw) ELSE DecodeError

\* GzDecoder::new(data).read_to_end(..): a stream without the gzip magic
\* 1F 8B 08 is rejected.  The model holds no gzip stream.
GzDecode(data) ==
  IF Len(data) < 3 \/ data[1] # 31 \/ data[2] # 139 \/ data[3] # 8 THEN DecodeError
  ELSE [ok |-> FALSE, bytes |-> <<31, 139>>]

(***************************************************************************)
(* anvil/mod.rs                                                            *)
(***************************************************************************)
SECTOR_SIZE == 4096

ChunkLocation(offset, sector_count) == [offset |-> offset, sector_count |-> sector_count]

\* a table that starts out pointing at the first data sector
DefaultLocationFirstSector == ChunkLocation(2, 1)

\* ChunkLocation { offset: 0, sector_count: 0 }
DefaultLocation == ChunkLocation(0, 0)

\* CompressionType::try_from
IsCompressionType(value) == value \in {1, 2, 3}

(***************************************************************************)
(* Slot indices                                                            *)
(***************************************************************************)
\* the i32 operator %: the remainder has the sign of the dividend
RustRem(a, n) == LET m == a % n IN IF a < 0 /\ m # 0 THEN m - n ELSE m

\* a remainder that keeps the sign of the dividend
RemTruncated(a, n) == RustRem(a, n)

\* i32::rem_euclid for a positive rhs
rem_euclid(a, n) == LET r == RustRem(a, n) IN IF r < 0 THEN r + n ELSE r

\* the index of Region::get_chunk_data
ReaderIndex(x, z) ==
  LET rel_x == rem_euclid(x, 32)
      rel_z == rem_euclid(z, 32)
  IN rel_z * 32 + rel_x

\* the index of RegionWriter::write_all_chunks
WriterIndex(x, z) ==
  LET rel_x == RustRem(RustRem(x, 32) + 32, 32)
      rel_z == RustRem(RustRem(z, 32) + 32, 32)
  IN rel_z * 32 + rel_x

(***************************************************************************)
(* anvil/encode.rs                                                         *)
(***************************************************************************)
\* a length that leaves out the compression-type byte
TotalLenWithoutType(compressed) == Len(compressed)

\* compressed.len() + 1, for a compressed payload of compressed_len bytes
TotalLenOf(compressed_len) == compressed_len + 1

\* let total_len = compressed.len() + 1
TotalLen(compressed) == TotalLenOf(Len(compressed))

SectorsNeeded(total_len) == (total_len + 4 + SECTOR_SIZE - 1) \div SECTOR_SIZE

\* (total_len as u32).to_be_bytes(), total_len below 2^31
LenToBe(total_len) == I32ToBe(total_len)

\* padding that leaves the four bytes of the length field out
PaddingWithoutLength(total_len) == SectorsNeeded(total_len) * SECTOR_SIZE - total_len

\* let padding = (sectors_needed * SECTOR_SIZE) - (total_len + 4)
Padding(total_len) == SectorsNeeded(total_len) * SECTOR_SIZE - (total_len + 4)

\* a location that names the first data sector, wherever the record is
RecordedLocationAtFirst(current_sector, sectors_needed) ==
  ChunkLocation(2, AsU8(sectors_needed))

\* ChunkLocation { offset: current_sector, sector_count: sectors_needed as u8 }
RecordedLocation(current_sector, sectors_needed) ==
  ChunkLocation(current_sector, AsU8(sectors_needed))

\* What one pass of the chunk loop does to the writer for a compressed
\* payload of compressed_len bytes, whatever the bytes are: lay is
\* [current_sector, records], a record being the location stored, the byte
\* the record starts at, the value of its length field, its compression
\* byte, the number of zero bytes after the payload and the number of bytes
\* written for it (length field, compression byte, payload, padding)
LayOutChunk(lay, compressed_len) ==
  LET total_len == TotalLenOf(compressed_len)
      sectors_needed == SectorsNeeded(total_len)
  IN [current_sector |-> lay.current_sector + sectors_needed,
      records |-> Append(lay.records,
                         [location |-> RecordedLocation(lay.current_sector, sectors_needed),
                          start |-> lay.current_sector * SECTOR_SIZE,
                          length_field |-> total_len,
                          compression |-> 2,
                          padding |-> Padding(total_len),
                          written |-> 4 + 1 + compressed_len + Padding(total_len)])]

\* the body of the chunk loop; st is [file, current_sector, locations]
WriteChunk(st, chunk) ==
  LET index == WriterIndex(chunk.x, chunk.z)
      raw_nbt == write_named_tag(chunk.name, chunk.tag)
      compressed == ZlibEncode(raw_nbt)
      total_len == TotalLen(compressed)
      sectors_needed == SectorsNeeded(total_len)
      padding == Padding(total_len)
  IN [file |-> WriteAt(st.file, st.current_sector * SECTOR_SIZE,
                       LenToBe(total_len) \o <<2>> \o compressed \o Zeros(padding)),
      current_sector |-> st.current_sector + sectors_needed,
      locations |-> [st.locations EXCEPT
                       ![index] = RecordedLocation(st.current_sector, sectors_needed)]]

RECURSIVE WriteChunks(_, _)
WriteChunks(st, chunks) ==
  IF chunks = <<>> THEN st
  ELSE WriteChunks(WriteChunk(st, Head(chunks)), Tail(chunks))

\* the four bytes in little-endian order of the offset
LocationByteLittleEndian(loc, j) ==
  CASE j = 0 -> BitAnd(loc.offset, 255)
    [] j = 1 -> BitAnd(Shr(loc.offset, 8), 255)
    [] j = 2 -> BitAnd(Shr(loc.offset, 16), 255)
    [] j = 3 -> loc.sector_count

\* the j-th of the four bytes written for a location
LocationByte(loc, j) ==
  CASE j = 0 -> BitAnd(Shr(loc.offset, 16), 255)
    [] j = 1 -> BitAnd(Shr(loc.offset, 8), 255)
    [] j = 2 -> BitAnd(loc.offset, 255)
    [] j = 3 -> loc.sector_count

\* the two header sectors: the location table, then 1024 zero timestamps
HeaderBytes(locations) ==
  [i \in 1..(2 * SECTOR_SIZE) |->
     IF i <= SECTOR_SIZE THEN LocationByte(locations[(i - 1) \div 4], (i - 1) % 4)
     ELSE 0]

\* write_all_chunks on a writer holding `file`, every write succeeding
write_all_chunks(file, chunks) ==
  LET st == WriteChunks([file |-> file, current_sector |-> 2,
                         locations |-> [i \in 0..1023 |-> DefaultLocation]],
                        chunks)
  IN WriteAt(st.file, 0, HeaderBytes(st.locations))

(***************************************************************************)
(* anvil/access.rs                                                         *)
(***************************************************************************)
\* The outcome of an io::Result<Option<..>>: kind is "None", "Some", "Err"
\* (with the error's kind in err) or "Panic" (the call does not return)
IoNone == [kind |-> "None", err |-> "", data |-> <<>>]

IoSome(data) == [kind |-> "Some", err |-> "", data |-> data]

IoErr(e) == [kind |-> "Err", err |-> e, data |-> <<>>]

IoPanic == [kind |-> "Panic", err |-> "", data |-> <<>>]

NoRegion == [ok |-> FALSE, err |-> "", locations |-> <<>>, timestamps |-> <<>>]

\* Err(io::Error::new(io::ErrorKind::InvalidData, "MCA file too small for headers"))
RegionRefused == [ok |-> FALSE, err |-> "InvalidData", locations |-> <<>>, timestamps |-> <<>>]

\* a size test that also turns away a file of exactly two sectors
TooSmallOrHeaderOnly(f) == f.len <= SECTOR_SIZE * 2

\* if mmap.len() < SECTOR_SIZE * 2
TooSmall(f) == f.len < SECTOR_SIZE * 2

\* Region::open on a file with these bytes; the Region's mmap is the file
RegionOpen(f) ==
  IF TooSmall(f) THEN RegionRefused
  ELSE LET held == DOMAIN f.data
            mmap(i) == IF i \in held THEN f.data[i] ELSE 0
       IN [ok |-> TRUE, err |-> "",
           locations |->
             [i \in 0..1023 |->
                ChunkLocation(
                  BitOr(BitOr(Shl(mmap(i * 4), 16), Shl(mmap(i * 4 + 1), 8)),
                        mmap(i * 4 + 2)),
                  mmap(i * 4 + 3))],
           timestamps |->
             [i \in 0..1023 |->
                U32FromBe(<<mmap(SECTOR_SIZE + i * 4), mmap(SECTOR_SIZE + i * 4 + 1),
                            mmap(SECTOR_SIZE + i * 4 + 2), mmap(SECTOR_SIZE + i * 4 + 3)>>)]]

\* if location.offset == 0 { return Ok(None) }
IsAbsent(location) == location.offset = 0

\* if length < 1 { return Ok(None) }, length a u32
IsEmptyLength(length) == length[1] = 0 /\ length[2] = 0

\* mmap[i] panics from the length of the map on.  start_byte is
\* offset * SECTOR_SIZE, which is below len exactly when the offset is at
\* most (len - 1) / SECTOR_SIZE
StartInMap(f, offset) == offset <= (f.len - 1) \div SECTOR_SIZE

\* `length as usize` of a u32
U32AsUsize(u) == IF u[1] >= 32768 THEN UsizeHuge ELSE Usize(u[1] * 65536 + u[2])

\* the decoder arm of get_chunk_data
Decompress(compression_type, data) ==
  CASE compression_type = 1 -> GzDecode(data)
    [] compression_type = 2 -> ZlibDecode(data)
    [] compression_type = 3 -> Decoded(data)

\* get_chunk_data from `if location.offset == 0` on: what it reads of the map
ReadRecord(f, location) ==
  IF IsAbsent(location) THEN IoNone
  ELSE IF ~StartInMap(f, location.offset) THEN IoPanic
  ELSE LET start_byte == location.offset * SECTOR_SIZE IN
    IF start_byte + 3 >= f.len THEN IoPanic
    ELSE LET length == U32FromBe(Slice(f, start_byte, start_byte + 4)) IN
      IF IsEmptyLength(length) THEN IoNone
      ELSE IF start_byte + 4 >= f.len THEN IoPanic
      ELSE LET compression_type_raw == ByteAt(f, start_byte + 4) IN
        IF ~IsCompressionType(compression_type_raw) THEN IoErr("InvalidData")
        ELSE LET len == U32AsUsize(length) IN
          IF len.huge \/ len.n > f.len - start_byte - 4 THEN IoPanic
          ELSE LET data == Slice(f, start_byte + 5, start_byte + 4 + len.n)
                   decoded == Decompress(compression_type_raw, data)
               IN IF decoded.ok THEN IoSome(decoded.bytes) ELSE IoErr("Decompress")

\* a lookup that takes the location out of the header table
HeaderAfterTake(header, index) ==
  [header EXCEPT !.locations[index] = DefaultLocation]

\* get_chunk_data(&self, ..): the header is read through a shared borrow
HeaderAfterRead(header, index) == header

get_chunk_data(f, header, x, z) ==
  ReadRecord(f, header.locations[ReaderIndex(x, z)])

\* the outcome of get_chunk_nbt: as above, with the name and tag of a Some
NbtNone == [kind |-> "None", err |-> "", name |-> <<>>, tag |-> NoValue]

NbtSome(name, tag) == [kind |-> "Some", err |-> "", name |-> name, tag |-> tag]

NbtErr(e) == [kind |-> "Err", err |-> e, name |-> <<>>, tag |-> NoValue]

NbtPanic == [kind |-> "Panic", err |-> "", name |-> <<>>, tag |-> NoValue]

\* a parse failure reported as an absent chunk
ParseFailureAsAbsent(err) == NbtNone

\* how get_chunk_nbt turns a parse failure into its result
ParseFailure(err) == IF err.kind = "Panic" THEN NbtPanic ELSE NbtErr("InvalidData")

\* get_chunk_nbt on what get_chunk_data returned
ParseChunk(got, oc) ==
  CASE got.kind = "Some" ->
         LET result == parse_named_tag(got.data, oc) IN
         IF result.err = NoError THEN NbtSome(result.name, result.tag)
         ELSE ParseFailure(result.err)
    [] got.kind = "None" -> NbtNone
    [] got.kind = "Err" -> NbtErr(got.err)
    [] got.kind = "Panic" -> NbtPanic

get_chunk_nbt(f, header, x, z, oc) == ParseChunk(get_chunk_data(f, header, x, z), oc)

(***************************************************************************)
(* State                                                                   *)
(***************************************************************************)
VARIABLES
  tpc,     \* text codec: what has been applied ("text", "bytes", ...)
  str,     \* text codec: the text given to encode_mutf8
  mbytes,  \* text codec: the modified UTF-8 bytes
  tres,    \* text codec: the result of decode_mutf8
  sres,    \* text codec: the result of parse_nbt_string on the framed bytes
  reenc,   \* text codec: encode_mutf8 of the decoded text
  npc,     \* tag codec: "doc", "written", "parsed"
  doc,     \* tag codec: the document [name, tag] given to write_named_tag
  buf,     \* tag codec: the bytes handed to parse_named_tag
  how,     \* tag codec: how buf was made: "whole" (as written), "truncated",
           \*   "patched" (one type-id byte overwritten) or "raw" (given bytes)
  site,    \* tag codec: the patched byte's [pos, kind]
  tid,     \* tag codec: the type id handed to parse_tag_payload
  pres,    \* tag codec: the outcome of parse_named_tag
  ppres,   \* tag codec: the outcome of parse_tag_payload(buf, tid)
  nwr,     \* tag codec: the bytes write_named_tag gives for the parsed document
  rpc,     \* region: "chunks", "written", "opened", "refused", "data", "nbt"
  chunks,  \* region: the chunk list given to write_all_chunks
  file,    \* region: the region file
  origin,  \* region: "writer" (file made by write_all_chunks) or "raw"
  region,  \* region: the Region made by Region::open (its mmap is file)
  query,   \* region: the coordinates <<x, z>> asked for
  gotData, \* region: the outcome of get_chunk_data
  got,     \* region: the outcome of get_chunk_nbt
  spc,     \* slot index: "coords", "reader", "writer", "both"
  sx,      \* slot index: chunk x
  sz,      \* slot index: chunk z
  rslot,   \* slot index: the index computed by get_chunk_data
  wslot,   \* slot index: the index computed by write_all_chunks
  kpc,     \* layout: "loop" (in the chunk loop), "done" (write_all_chunks returned)
  klens,   \* layout: the lengths of the chunks' compressed payloads, in order
  klay,    \* layout: the writer's [current_sector, records] so far
  kres,    \* layout: what write_all_chunks returned: "Ok" or "Err"
  cpc,     \* stream: "docs", "stream" (the documents as written), "raw"
  cdocs,   \* stream: the documents written one after the other
  cunits,  \* stream: the byte strings the input is the concatenation of
  cin,     \* stream: the caller's input slice
  cprev,   \* stream: the caller's input slice before the last call
  cres,    \* stream: the outcome of the last parse_named_tag
  cout,    \* stream: the <<name, tag>> pairs returned so far, in order
  readers, \* readers: each reader's [pc, op, x, z, location, data, got]
  build,   \* readers: the build has overflow checks on
  wpc,     \* writer: "loop" (in the chunk loop), "returned"
  wchunks, \* writer: the chunks given to write_all_chunks
  wst,     \* writer: its [file, current_sector, locations]
  wdone,   \* writer: the number of passes of the chunk loop completed
  wlog,    \* writer: the writes made so far, in order, each <<at, bytes>>
  wres,    \* writer: what write_all_chunks returned: "" (not yet), "Ok", "Err"
  xpc,     \* prefixes: "content" (given), "written"
  xkind,   \* prefixes: the type id of the tag written (7, 8, 9, 11 or 12)
  xlen,    \* prefixes: bytes.len() of a String, v.len() of an array or List
  xprefix, \* prefixes: the bytes of the length prefix written
  xafter,  \* prefixes: the number of bytes or elements written after it
  qpc,     \* steps: "start", "run" (inside parse_named_tag) or "done"
  qin,     \* steps: the input given to parse_named_tag
  qoc,     \* steps: the build has overflow checks on
  qdata,   \* steps: reader.data, the input not yet read
  qtasks,  \* steps: what is still to do, innermost first
  qread,   \* steps: the last read: [width, ok, before]
  qres     \* steps: the outcome: NoError or the error

textVars == <<tpc, str, mbytes, tres, sres, reenc>>

nbtVars == <<npc, doc, buf, how, site, tid, pres, ppres, nwr>>

regionVars == <<rpc, chunks, file, origin, region, query, gotData, got>>

slotVars == <<spc, sx, sz, rslot, wslot>>

layoutVars == <<kpc, klens, klay, kres>>

streamVars == <<cpc, cdocs, cunits, cin, cprev, cres, cout>>

readerVars == <<readers, build>>

writerVars == <<wpc, wchunks, wst, wdone, wlog, wres>>

prefixVars == <<xpc, xkind, xlen, xprefix, xafter>>

stepVars == <<qpc, qin, qoc, qdata, qtasks, qread, qres>>

vars == <<textVars, nbtVars, regionVars, slotVars, layoutVars, streamVars, readerVars,
          writerVars, prefixVars, stepVars>>

NoNamed == Named(NoError, <<>>, NoValue, <<>>)

TextIdle ==
  /\ tpc = "idle" /\ str = <<>> /\ mbytes = <<>>
  /\ tres = TextErr /\ sres = Fail(NoError) /\ reenc = <<>>

NoDoc == [name |-> <<>>, tag |-> TagEnd]

NoSite == [pos |-> 0, kind |-> "none"]

NbtIdle ==
  /\ npc = "idle" /\ doc = NoDoc /\ buf = <<>> /\ how = "whole"
  /\ site = NoSite /\ tid = 0 /\ pres = NoNamed /\ ppres = Fail(NoError)
  /\ nwr = <<>>

RegionIdle ==
  /\ rpc = "idle" /\ chunks = <<>> /\ file = EmptyFile /\ origin = "writer"
  /\ region = NoRegion /\ query = <<0, 0>> /\ gotData = IoNone /\ got = NbtNone

SlotIdle == spc = "idle" /\ sx = 0 /\ sz = 0 /\ rslot = 0 /\ wslot = 0

\* let mut current_sector = 2u32, before the first chunk
NoLayout == [current_sector |-> 2, records |-> <<>>]

LayoutIdle == kpc = "idle" /\ klens = <<>> /\ klay = NoLayout /\ kres = "Ok"

StreamIdle ==
  /\ cpc = "idle" /\ cdocs = <<>> /\ cunits = <<>> /\ cin = <<>> /\ cprev = <<>>
  /\ cres = NoNamed /\ cout = <<>>

ReadersIdle == readers = <<>> /\ build = FALSE

\* the writer before the chunk loop: seek past the header, current_sector = 2
NewWriter ==
  [file |-> EmptyFile, current_sector |-> 2,
   locations |-> [i \in 0..1023 |-> DefaultLocation]]

\* no writer constructed
NoWriter == [file |-> EmptyFile, current_sector |-> 0, locations |-> <<>>]

WriterIdle ==
  /\ wpc = "idle" /\ wchunks = <<>> /\ wst = NoWriter /\ wdone = 0
  /\ wlog = <<>> /\ wres = ""

PrefixIdle == xpc = "idle" /\ xkind = 0 /\ xlen = 0 /\ xprefix = <<>> /\ xafter = 0

\* no read made yet
NoRead == [width |-> 0, ok |-> TRUE, before |-> 0]

StepsIdle ==
  /\ qpc = "idle" /\ qin = <<>> /\ qoc = FALSE /\ qdata = <<>> /\ qtasks = <<>>
  /\ qread = NoRead /\ qres = NoError

(***************************************************************************)
(* The text codec on bounded inputs                                        *)
(***************************************************************************)
MaxTextLen == 3

MaxUnits == 3

\* NUL, ASCII, the ends of the 1-, 2- and 3-byte ranges, the scalar values
\* around the surrogates, and supplementary characters
CharSamples == {0, 65, 127, 128, 2047, 2048, 55295, 57344, 65535, 65536, 128512, 1114111}

\* pieces of modified UTF-8, well-formed and not: 'A', NUL as C0 80, U+00E9,
\* U+20AC, a high and a low surrogate, an overlong 'A' (C1 81), an overlong
\* NUL (E0 80 80), a low surrogate whose last byte is no continuation byte,
\* a 2-byte sequence with a bad continuation byte, truncated sequences, a
\* stray continuation byte, a 4-byte lead and the byte 00
ByteUnits ==
  { <<65>>, <<192, 128>>, <<195, 169>>, <<226, 130, 172>>,
    <<237, 160, 128>>, <<237, 176, 128>>, <<193, 129>>, <<224, 128, 128>>,
    <<237, 176, 65>>, <<195, 65>>, <<195>>, <<226, 130>>, <<128>>, <<240>>, <<0>> }

TextInputs == SeqsUpTo(CharSamples, MaxTextLen)

ByteInputs == {Flatten(us) : us \in SeqsUpTo(ByteUnits, MaxUnits)}

TextInit ==
  /\ \/ tpc = "text" /\ str \in TextInputs /\ mbytes = <<>>
     \/ tpc = "bytes" /\ str = <<>> /\ mbytes \in ByteInputs
  /\ tres = TextErr /\ sres = Fail(NoError) /\ reenc = <<>>

\* encode_mutf8(str)
EncodeText ==
  /\ tpc = "text"
  /\ mbytes' = encode_mutf8(str)
  /\ tpc' = "encoded"
  /\ UNCHANGED <<str, tres, sres, reenc>>
  /\ UNCHANGED <<nbtVars, regionVars, slotVars, layoutVars, streamVars, readerVars, writerVars, prefixVars, stepVars>>

\* decode_mutf8 of the bytes, and parse_nbt_string of the bytes behind their
\* 16-bit length
DecodeBytes ==
  /\ tpc \in {"encoded", "bytes"}
  /\ tres' = decode_mutf8(mbytes)
  /\ sres' = parse_nbt_string(U16ToBe(Len(mbytes)) \o mbytes)
  /\ tpc' = IF tpc = "encoded" THEN "text_back" ELSE "decoded"
  /\ UNCHANGED <<str, mbytes, reenc>>
  /\ UNCHANGED <<nbtVars, regionVars, slotVars, layoutVars, streamVars, readerVars, writerVars, prefixVars, stepVars>>

\* encode_mutf8 of the text decode_mutf8 returned
EncodeDecoded ==
  /\ tpc = "decoded" /\ tres.ok
  /\ reenc' = encode_mutf8(tres.s)
  /\ tpc' = "bytes_back"
  /\ UNCHANGED <<str, mbytes, tres, sres>>
  /\ UNCHANGED <<nbtVars, regionVars, slotVars, layoutVars, streamVars, readerVars, writerVars, prefixVars, stepVars>>

TextNext == EncodeText \/ DecodeBytes \/ EncodeDecoded

InitText == TextInit /\ NbtIdle /\ RegionIdle /\ SlotIdle /\ LayoutIdle /\ StreamIdle
  /\ ReadersIdle /\ WriterIdle /\ PrefixIdle /\ StepsIdle

SpecText == InitText /\ [][TextNext]_vars

(***************************************************************************)
(* The tag codec on bounded inputs                                         *)
(***************************************************************************)
MaxDepth == 1

MaxRawUnits == 4

\* "", "a", and a name with a NUL and a supplementary character
NameSamples == {<<>>, <<97>>, <<0, 128512>>}

\* the document of tests/integration.rs (test_complex_nbt_round_trip_gzip)
TestDocument ==
  Tag(10, << Entry(<<98, 121, 116, 101>>, Tag(1, 127)),
             Entry(<<115, 104, 111, 114, 116>>, Tag(2, 32767)),
             Entry(<<105, 110, 116>>, Tag(3, 2147483647)),
             Entry(<<108, 105, 115, 116>>,
                   Tag(9, <<Tag(8, <<65>>), Tag(8, <<66>>), Tag(8, <<67>>)>>)),
             Entry(<<105, 110, 116, 65, 114, 114, 97, 121>>, Tag(11, <<1, 2, 3>>)),
             Entry(<<110, 101, 115, 116, 101, 100>>,
                   Tag(10, <<Entry(<<107, 101, 121>>, Tag(8, <<118, 97, 108, 117, 101>>))>>)) >>)

\* one tag of every type, the containers empty, and two nested documents
BaseTags ==
  { TagEnd, Tag(1, -128), Tag(2, -2), Tag(3, 305419896),
    Tag(4, [hi |-> -1, lo |-> <<65535, 65534>>]),
    Tag(5, <<16256, 0>>), Tag(6, <<<<32760, 0>>, <<0, 1>>>>),
    Tag(7, <<>>), Tag(7, <<0, 255>>), Tag(8, <<>>), Tag(8, <<104, 0, 233>>),
    Tag(9, <<>>), Tag(10, <<>>), Tag(11, <<1, -2>>),
    Tag(12, <<[hi |-> 0, lo |-> <<0, 3>>], [hi |-> -2147483647, lo |-> <<32768, 0>>]>>),
    Tag(9, <<Tag(10, <<Entry(<<120>>, Tag(9, <<Tag(1, 1), Tag(1, 2)>>))>>), Tag(10, <<>>)>>),
    TestDocument }

\* another tag of the same type
Sibling(tag) ==
  CASE tag[1] = 0 -> TagEnd
    [] tag[1] = 1 -> Tag(1, 127)
    [] tag[1] = 2 -> Tag(2, 32767)
    [] tag[1] = 3 -> Tag(3, -1)
    [] tag[1] = 4 -> Tag(4, [hi |-> 0, lo |-> <<0, 0>>])
    [] tag[1] = 5 -> Tag(5, <<65535, 65535>>)
    [] tag[1] = 6 -> Tag(6, <<<<0, 0>>, <<0, 0>>>>)
    [] tag[1] = 7 -> Tag(7, <<7>>)
    [] tag[1] = 8 -> Tag(8, <<128512>>)
    [] tag[1] = 9 -> Tag(9, <<>>)
    [] tag[1] = 10 -> Tag(10, <<>>)
    [] tag[1] = 11 -> Tag(11, <<>>)
    [] tag[1] = 12 -> Tag(12, <<>>)

\* the containers built on a tag: lists of one and two elements of its type,
\* a list mixing it with a Byte, and compounds holding it
Nest(tag) ==
  { Tag(9, <<tag>>), Tag(9, <<tag, Sibling(tag)>>), Tag(9, <<tag, Tag(1, 1)>>),
    Tag(10, <<Entry(<<97>>, tag)>>),
    Tag(10, <<Entry(<<120>>, Tag(3, 123)), Entry(<<0, 233>>, tag)>>) }

RECURSIVE TagsOfDepth(_)
TagsOfDepth(d) ==
  IF d = 0 THEN BaseTags
  ELSE LET T == TagsOfDepth(d - 1) IN T \cup UNION {Nest(t) : t \in T}

DocSamples == [name : NameSamples, tag : TagsOfDepth(MaxDepth)]

\* byte streams given as such: type ids 13, 10, 1 and 255, the names "" and
\* "a", and a name whose text is cut inside a 2-byte sequence
RawUnits == {<<13>>, <<10>>, <<1>>, <<255>>, <<0, 0>>, <<0, 1, 97>>, <<0, 1, 195>>}

\* the bytes 01 00 04 'n' 'a' 'm' 'e' 7F: a Byte of 127 named "name"
NamedByteExample == <<1, 0, 4, 110, 97, 109, 101, 127>>

\* a compound named "" whose entries are the Bytes a = 1, b = 2, a = 3, c = 4
DuplicateNameExample ==
  <<10, 0, 0, 1, 0, 1, 97, 1, 1, 0, 1, 98, 2, 1, 0, 1, 97, 3, 1, 0, 1, 99, 4, 0>>

RawInputs == {Flatten(us) : us \in SeqsUpTo(RawUnits, MaxRawUnits)}

\* type ids outside 0..12
BadTypeIds == {13, 14, 255}

RECURSIVE SumLen(_)
SumLen(ss) == IF ss = <<>> THEN 0 ELSE Len(Head(ss)) + SumLen(Tail(ss))

\* the bytes write_tag_payload emits for the k-th element of a list, and
\* for the k-th entry of a compound
ElementBytes(tag, k) == write_tag_payload(tag[2][k])

EntryBytes(tag, k) ==
  <<get_type_id(EntryTag(tag[2][k]))>> \o write_nbt_string(EntryName(tag[2][k]))
  \o write_tag_payload(EntryTag(tag[2][k]))

\* Where the type-id bytes lie in the bytes written for a payload that starts
\* after `base` bytes: a list's element type ("element"), a compound entry's
\* type ("entry") and a compound's closing zero ("end")
RECURSIVE PayloadSites(_, _)
PayloadSites(tag, base) ==
  CASE tag[1] = 9 ->
         {[pos |-> base + 1, kind |-> "element"]}
         \cup UNION { PayloadSites(tag[2][k],
                        base + 5 + SumLen([j \in 1..(k - 1) |-> ElementBytes(tag, j)]))
                      : k \in 1..Len(tag[2]) }
    [] tag[1] = 10 ->
         LET start(k) == base + SumLen([j \in 1..(k - 1) |-> EntryBytes(tag, j)]) IN
         {[pos |-> start(Len(tag[2]) + 1) + 1, kind |-> "end"]}
         \cup UNION { {[pos |-> start(k) + 1, kind |-> "entry"]}
                      \cup PayloadSites(EntryTag(tag[2][k]),
                             start(k) + 1 + Len(write_nbt_string(EntryName(tag[2][k]))))
                      : k \in 1..Len(tag[2]) }
    [] OTHER -> {}

DocSites(d) ==
  {[pos |-> 1, kind |-> "root"]}
  \cup PayloadSites(d.tag, 1 + Len(write_nbt_string(d.name)))

\* the bytes a type id is overwritten with
PatchBytes == {13, 255}

NbtInit ==
  /\ \/ npc = "doc" /\ doc \in DocSamples /\ buf = <<>> /\ how = "whole"
     \/ npc = "written" /\ doc = NoDoc /\ buf \in RawInputs /\ how = "raw"
  /\ site = NoSite /\ tid = 0 /\ pres = NoNamed /\ ppres = Fail(NoError)
  /\ nwr = <<>>

\* write_named_tag(&mut buf, name, tag) into an empty Vec
WriteDoc ==
  /\ npc = "doc"
  /\ buf' = write_named_tag(doc.name, doc.tag)
  /\ npc' = "written"
  /\ UNCHANGED <<nwr, doc, how, site, tid, pres, ppres>>
  /\ UNCHANGED <<textVars, regionVars, slotVars, layoutVars, streamVars, readerVars, writerVars, prefixVars, stepVars>>

\* the written bytes cut at an arbitrary offset
Truncate ==
  /\ npc = "written" /\ how = "whole"
  /\ \E k \in 0..(Len(buf) - 1) : buf' = TakeBytes(buf, k)
  /\ how' = "truncated"
  /\ UNCHANGED <<nwr, npc, doc, site, tid, pres, ppres>>
  /\ UNCHANGED <<textVars, regionVars, slotVars, layoutVars, streamVars, readerVars, writerVars, prefixVars, stepVars>>

\* one type-id byte of the written bytes overwritten
Patch ==
  /\ npc = "written" /\ how = "whole"
  /\ \E s \in DocSites(doc), b \in PatchBytes :
       /\ buf' = [buf EXCEPT ![s.pos] = b]
       /\ site' = s
  /\ how' = "patched"
  /\ UNCHANGED <<nwr, npc, doc, tid, pres, ppres>>
  /\ UNCHANGED <<textVars, regionVars, slotVars, layoutVars, streamVars, readerVars, writerVars, prefixVars, stepVars>>

\* parse_named_tag(&mut input) with input = &buf[..]
ParseDoc ==
  /\ npc = "written"
  /\ \E oc \in BOOLEAN : pres' = parse_named_tag(buf, oc)
  /\ npc' = "parsed"
  /\ UNCHANGED <<nwr, doc, buf, how, site, tid, ppres>>
  /\ UNCHANGED <<textVars, regionVars, slotVars, layoutVars, streamVars, readerVars, writerVars, prefixVars, stepVars>>

\* parse_tag_payload(&mut reader, t) on a reader over buf, t no valid type id
ParsePayload ==
  /\ npc = "written"
  /\ \E t \in BadTypeIds, oc \in BOOLEAN :
       /\ tid' = t
       /\ ppres' = parse_tag_payload(buf, t, oc)
  /\ npc' = "payload"
  /\ UNCHANGED <<nwr, doc, buf, how, site, pres>>
  /\ UNCHANGED <<textVars, regionVars, slotVars, layoutVars, streamVars, readerVars, writerVars, prefixVars, stepVars>>

\* write_named_tag(&mut out, &name, &tag) on what parse_named_tag returned
WriteParsed ==
  /\ npc = "parsed" /\ pres.err = NoError
  /\ nwr' = write_named_tag(pres.name, pres.tag)
  /\ npc' = "rewritten"
  /\ UNCHANGED <<doc, buf, how, site, tid, pres, ppres>>
  /\ UNCHANGED <<textVars, regionVars, slotVars, layoutVars, streamVars, readerVars, writerVars, prefixVars, stepVars>>

\* the type ids of the array payloads: ByteArray, IntArray, LongArray
ArrayTypeIds == {7, 11, 12}

\* parse_tag_payload(&mut reader, t) on a reader over bytes given as such,
\* t the type id of an array
ParseArrayPayload ==
  /\ npc = "written" /\ how = "raw"
  /\ \E t \in ArrayTypeIds, oc \in BOOLEAN :
       /\ tid' = t
       /\ ppres' = parse_tag_payload(buf, t, oc)
  /\ npc' = "array"
  /\ UNCHANGED <<nwr, doc, buf, how, site, pres>>
  /\ UNCHANGED <<textVars, regionVars, slotVars, layoutVars, streamVars, readerVars, writerVars, prefixVars, stepVars>>

\* the most elements of a list of End given as input: such elements take no
\* bytes, so the list's loop runs its whole count on any input
MaxEndElements == 3

\* the list payloads given: every input but a list of more than
\* MaxEndElements End elements
ListPayloadGiven(b) ==
  Len(b) >= 5 /\ b[1] = 0 => I32FromBe(SubSeq(b, 2, 5)) <= MaxEndElements

\* parse_tag_payload(&mut reader, 9) on a reader over bytes given as such
ParseListPayload ==
  /\ npc = "written" /\ how = "raw" /\ ListPayloadGiven(buf)
  /\ \E oc \in BOOLEAN : ppres' = parse_tag_payload(buf, 9, oc)
  /\ tid' = 9
  /\ npc' = "list"
  /\ UNCHANGED <<nwr, doc, buf, how, site, pres>>
  /\ UNCHANGED <<textVars, regionVars, slotVars, layoutVars, streamVars, readerVars, writerVars, prefixVars, stepVars>>

NbtNext == WriteDoc \/ Truncate \/ Patch \/ ParseDoc \/ ParsePayload \/ ParseArrayPayload
           \/ WriteParsed

InitNbt == NbtInit /\ TextIdle /\ RegionIdle /\ SlotIdle /\ LayoutIdle /\ StreamIdle
  /\ ReadersIdle /\ WriterIdle /\ PrefixIdle /\ StepsIdle

SpecNbt == InitNbt /\ [][NbtNext]_vars

(***************************************************************************)
(* The tag codec on whole documents: the sample documents written and      *)
(* parsed back, and the two example byte streams parsed                    *)
(***************************************************************************)
DocsInit ==
  /\ \/ npc = "doc" /\ doc \in DocSamples /\ buf = <<>> /\ how = "whole"
     \/ /\ npc = "written" /\ doc = NoDoc /\ how = "raw"
        /\ buf \in {NamedByteExample, DuplicateNameExample}
  /\ site = NoSite /\ tid = 0 /\ pres = NoNamed /\ ppres = Fail(NoError)
  /\ nwr = <<>>

DocsNext == WriteDoc \/ ParseDoc

InitDocs == DocsInit /\ TextIdle /\ RegionIdle /\ SlotIdle /\ LayoutIdle /\ StreamIdle
  /\ ReadersIdle /\ WriterIdle /\ PrefixIdle /\ StepsIdle

SpecDocs == InitDocs /\ [][DocsNext]_vars

(***************************************************************************)
(* The List arm of parse_tag_payload on byte streams given as such         *)
(***************************************************************************)
ListInit ==
  /\ npc = "written" /\ doc = NoDoc /\ buf \in RawInputs /\ how = "raw"
  /\ site = NoSite /\ tid = 0 /\ pres = NoNamed /\ ppres = Fail(NoError)
  /\ nwr = <<>>

ListNext == ParseListPayload

InitList == ListInit /\ TextIdle /\ RegionIdle /\ SlotIdle /\ LayoutIdle /\ StreamIdle
  /\ ReadersIdle /\ WriterIdle /\ PrefixIdle /\ StepsIdle

SpecList == InitList /\ [][ListNext]_vars

(***************************************************************************)
(* The slot index on bounded coordinates                                   *)
(***************************************************************************)
CoordSpan == 40

MinI32 == -2147483647 - 1

MaxI32 == 2147483647

CoordSamples == (-CoordSpan..CoordSpan) \cup {MinI32, MinI32 + 1, MaxI32 - 1, MaxI32}

SlotInit ==
  /\ spc = "coords" /\ sx \in CoordSamples /\ sz \in CoordSamples
  /\ rslot = 0 /\ wslot = 0

ReaderSlot ==
  /\ spc \in {"coords", "writer"}
  /\ rslot' = ReaderIndex(sx, sz)
  /\ spc' = IF spc = "coords" THEN "reader" ELSE "both"
  /\ UNCHANGED <<sx, sz, wslot>>
  /\ UNCHANGED <<textVars, nbtVars, regionVars, layoutVars, streamVars, readerVars, writerVars, prefixVars, stepVars>>

WriterSlot ==
  /\ spc \in {"coords", "reader"}
  /\ wslot' = WriterIndex(sx, sz)
  /\ spc' = IF spc = "coords" THEN "writer" ELSE "both"
  /\ UNCHANGED <<sx, sz, rslot>>
  /\ UNCHANGED <<textVars, nbtVars, regionVars, layoutVars, streamVars, readerVars, writerVars, prefixVars, stepVars>>

SlotNext == ReaderSlot \/ WriterSlot

InitSlot == SlotInit /\ TextIdle /\ NbtIdle /\ RegionIdle /\ LayoutIdle /\ StreamIdle
  /\ ReadersIdle /\ WriterIdle /\ PrefixIdle /\ StepsIdle

SpecSlot == InitSlot /\ [][SlotNext]_vars

(***************************************************************************)
(* The region container on bounded chunk lists and files                   *)
(***************************************************************************)
MaxChunks == 2

\* "Chunk"
ChunkName == <<67, 104, 117, 110, 107>>

\* the chunk of test_anvil_round_trip: Compound {"Data": Int(123)}
ChunkTag == Tag(10, <<Entry(<<68, 97, 116, 97>>, Tag(3, 123))>>)

ChunkDocs ==
  {[name |-> ChunkName, tag |-> ChunkTag],
   [name |-> <<>>, tag |-> TagEnd],
   [name |-> <<97>>, tag |-> TagEnd]}

CoordPairs == {<<0, 0>>, <<-1, -1>>, <<MinI32, 32>>}

QueryPairs == CoordPairs \cup {<<31, 31>>, <<5, 5>>}

Chunk(c, d) == [x |-> c[1], z |-> c[2], name |-> d.name, tag |-> d.tag]

ChunkSamples == {Chunk(c, d) : c \in CoordPairs, d \in ChunkDocs}

ChunkLists == SeqsUpTo(ChunkSamples, MaxChunks)

\* Files that write_all_chunks did not make: slot 0 located at sector off,
\* and at sector 2 a record with the given length field, compression byte
\* and payload, in a file of flen bytes
RawFile(flen, off, lenBytes, ctype, payload) ==
  LET header == WriteAt([len |-> flen, data |-> [i \in {} |-> 0]], 0, <<0, 0, off, 1>>)
      record == lenBytes \o <<ctype>> \o payload
  IN IF flen <= 2 * SECTOR_SIZE THEN header
     ELSE WriteAt(header, 2 * SECTOR_SIZE,
                  TakeBytes(record, IF Len(record) < flen - 2 * SECTOR_SIZE
                                    THEN Len(record) ELSE flen - 2 * SECTOR_SIZE))

RawPayloads ==
  {ZlibEncode(write_named_tag(ChunkName, ChunkTag)),
   write_named_tag(ChunkName, ChunkTag),
   ZlibEncode(<<13>>),
   <<13>>}

RawLengths(payload) ==
  {I32ToBe(0), I32ToBe(Len(payload)), I32ToBe(Len(payload) + 1),
   I32ToBe(SECTOR_SIZE - 4), I32ToBe(SECTOR_SIZE - 3), <<255, 255, 255, 255>>}

\* a file of flen bytes whose last slot is located at sector 01 02 03 with
\* count 4, and whose slot 5 has the timestamp 01 02 03 04
StampedFile(flen) ==
  WriteAt(WriteAt([len |-> flen, data |-> [i \in {} |-> 0]], 4 * 1023, <<1, 2, 3, 4>>),
          SECTOR_SIZE + 4 * 5, <<1, 2, 3, 4>>)

RawFiles ==
  {RawFile(2 * SECTOR_SIZE - 1, 2, I32ToBe(0), 2, <<>>)}
  \cup {StampedFile(2 * SECTOR_SIZE + n) : n \in {-1, 0, 1}}
  \cup {RawFile(2 * SECTOR_SIZE, off, I32ToBe(0), 2, <<>>) : off \in {0, 2}}
  \cup {RawFile(2 * SECTOR_SIZE + n, 2, I32ToBe(1), 2, <<>>) : n \in {3, 4, 5}}
  \cup UNION {UNION {{RawFile(3 * SECTOR_SIZE, off, l, ctype, p) :
                        off \in {0, 2, 3}, ctype \in 0..4} :
                     l \in RawLengths(p)} :
              p \in RawPayloads}

RegionInit ==
  /\ \/ rpc = "chunks" /\ chunks \in ChunkLists /\ file = EmptyFile /\ origin = "writer"
     \/ rpc = "written" /\ chunks = <<>> /\ file \in RawFiles /\ origin = "raw"
  /\ region = NoRegion /\ query = <<0, 0>> /\ gotData = IoNone /\ got = NbtNone

\* RegionWriter::new(file).write_all_chunks(&chunks)
WriteAllChunks ==
  /\ rpc = "chunks"
  /\ file' = write_all_chunks(file, chunks)
  /\ rpc' = "written"
  /\ UNCHANGED <<chunks, origin, region, query, gotData, got>>
  /\ UNCHANGED <<textVars, nbtVars, slotVars, layoutVars, streamVars, readerVars, writerVars, prefixVars, stepVars>>

\* Region::open(path)
Open ==
  /\ rpc = "written"
  /\ region' = RegionOpen(file)
  /\ rpc' = IF region'.ok THEN "opened" ELSE "refused"
  /\ UNCHANGED <<chunks, file, origin, query, gotData, got>>
  /\ UNCHANGED <<textVars, nbtVars, slotVars, layoutVars, streamVars, readerVars, writerVars, prefixVars, stepVars>>

\* region.get_chunk_data(x, z)
GetChunkData ==
  /\ rpc = "opened"
  /\ \E q \in QueryPairs :
       /\ query' = q
       /\ gotData' = get_chunk_data(file, region, q[1], q[2])
  /\ rpc' = "data"
  /\ UNCHANGED <<chunks, file, origin, region, got>>
  /\ UNCHANGED <<textVars, nbtVars, slotVars, layoutVars, streamVars, readerVars, writerVars, prefixVars, stepVars>>

\* region.get_chunk_nbt(x, z)
GetChunkNbt ==
  /\ rpc = "opened"
  /\ \E q \in QueryPairs, oc \in BOOLEAN :
       /\ query' = q
       /\ got' = get_chunk_nbt(file, region, q[1], q[2], oc)
  /\ rpc' = "nbt"
  /\ UNCHANGED <<chunks, file, origin, region, gotData>>
  /\ UNCHANGED <<textVars, nbtVars, slotVars, layoutVars, streamVars, readerVars, writerVars, prefixVars, stepVars>>

RegionNext == WriteAllChunks \/ Open \/ GetChunkData \/ GetChunkNbt

InitRegion == RegionInit /\ TextIdle /\ NbtIdle /\ SlotIdle /\ LayoutIdle /\ StreamIdle
  /\ ReadersIdle /\ WriterIdle /\ PrefixIdle /\ StepsIdle

SpecRegion == InitRegion /\ [][RegionNext]_vars

(***************************************************************************)
(* The layout of write_all_chunks on chunks of bounded number, whose       *)
(* compressed payloads have lengths around the sector boundaries           *)
(***************************************************************************)
MaxSized == 3

\* u8::MAX, the largest sector_count a ChunkLocation holds
U8Max == 255

\* compressed lengths whose records end just before, on and just after the
\* end of a sector
SizeSamples ==
  {n * SECTOR_SIZE - 5 + d : n \in {1, 2, U8Max, U8Max + 1}, d \in {-1, 0, 1}}

LayoutInit ==
  /\ kpc = "loop" /\ klens \in SeqsUpTo(SizeSamples, MaxSized)
  /\ klay = NoLayout /\ kres = "Ok"

\* one pass of the chunk loop of write_all_chunks
LayOutNext ==
  /\ kpc = "loop" /\ Len(klay.records) < Len(klens)
  /\ klay' = LayOutChunk(klay, klens[Len(klay.records) + 1])
  /\ UNCHANGED <<kpc, klens, kres>>
  /\ UNCHANGED <<textVars, nbtVars, regionVars, slotVars, streamVars, readerVars, writerVars, prefixVars, stepVars>>

\* after the loop: the header is written and Ok(()) returned; no pass of
\* the loop returns early for a payload of any length
LayOutDone ==
  /\ kpc = "loop" /\ Len(klay.records) = Len(klens)
  /\ kpc' = "done" /\ kres' = "Ok"
  /\ UNCHANGED <<klens, klay>>
  /\ UNCHANGED <<textVars, nbtVars, regionVars, slotVars, streamVars, readerVars, writerVars, prefixVars, stepVars>>

LayoutNext == LayOutNext \/ LayOutDone

InitLayout == LayoutInit /\ TextIdle /\ NbtIdle /\ RegionIdle /\ SlotIdle /\ StreamIdle
  /\ ReadersIdle /\ WriterIdle /\ PrefixIdle /\ StepsIdle

SpecLayout == InitLayout /\ [][LayoutNext]_vars

(***************************************************************************)
(* Documents read one after the other from one input slice                 *)
(***************************************************************************)
MaxStream == 3

\* the empty document, a named Byte, the test document, and a list of one
\* string under a name with a NUL and a supplementary character
StreamDocs ==
  { [name |-> <<>>, tag |-> TagEnd],
    [name |-> <<97>>, tag |-> Tag(1, 5)],
    [name |-> <<>>, tag |-> TestDocument],
    [name |-> <<0, 128512>>, tag |-> Tag(9, <<Tag(8, <<65>>)>>)] }

\* inputs given as bytes: a lone zero, a Byte named "", an empty compound
\* named "", and a type id outside 0..12
StreamUnits == {<<0>>, <<1, 0, 0, 5>>, <<10, 0, 0, 0>>, <<13>>}

StreamInit ==
  /\ \/ cpc = "docs" /\ cdocs \in SeqsUpTo(StreamDocs, MaxStream)
        /\ cunits = <<>> /\ cin = <<>>
     \/ cpc = "raw" /\ cdocs = <<>>
        /\ cunits \in SeqsUpTo(StreamUnits, MaxStream) /\ cin = Flatten(cunits)
  /\ cprev = <<>> /\ cres = NoNamed /\ cout = <<>>

\* write_named_tag(&mut buf, name, tag) for each document, into one Vec
WriteStream ==
  /\ cpc = "docs"
  /\ cunits' = [k \in 1..Len(cdocs) |-> write_named_tag(cdocs[k].name, cdocs[k].tag)]
  /\ cin' = Flatten(cunits')
  /\ cpc' = "stream"
  /\ UNCHANGED <<cdocs, cprev, cres, cout>>
  /\ UNCHANGED <<textVars, nbtVars, regionVars, slotVars, layoutVars, readerVars, writerVars, prefixVars, stepVars>>

\* parse_named_tag(&mut input) by a caller that reads documents until the
\* input is used up or a call fails
ParseNextDoc ==
  /\ cpc \in {"stream", "raw"} /\ cin # <<>> /\ cres.err = NoError
  /\ \E oc \in BOOLEAN : cres' = parse_named_tag(cin, oc)
  /\ cin' = cres'.input
  /\ cout' = IF cres'.err = NoError THEN Append(cout, <<cres'.name, cres'.tag>>) ELSE cout
  /\ cprev' = cin
  /\ UNCHANGED <<cpc, cdocs, cunits>>
  /\ UNCHANGED <<textVars, nbtVars, regionVars, slotVars, layoutVars, readerVars, writerVars, prefixVars, stepVars>>

StreamNext == WriteStream \/ ParseNextDoc

InitStream ==
  StreamInit /\ TextIdle /\ NbtIdle /\ RegionIdle /\ SlotIdle /\ LayoutIdle
  /\ ReadersIdle /\ WriterIdle /\ PrefixIdle /\ StepsIdle

SpecStream == InitStream /\ [][StreamNext]_vars

(***************************************************************************)
(* Concurrent readers of one opened Region.  A call is three steps: the    *)
(* read of the header table, the reads of the map, and the parse of the    *)
(* decoded bytes; the steps of different readers interleave freely.        *)
(***************************************************************************)
NumReaders == 2

Readers == 1..NumReaders

\* the chunks written to the region the readers share
ReaderChunks ==
  << Chunk(<<0, 0>>, [name |-> ChunkName, tag |-> ChunkTag]),
     Chunk(<<-1, -1>>, [name |-> <<>>, tag |-> Tag(11, <<1, -2>>)]) >>

\* a region file whose slot 0 holds an IntArray with a negative count, and
\* one whose slot 0 points past the end of the file
ReaderFiles ==
  { write_all_chunks(EmptyFile, ReaderChunks),
    RawFile(3 * SECTOR_SIZE, 2, I32ToBe(9), 3, <<11, 0, 0, 255, 255, 255, 255>>),
    RawFile(3 * SECTOR_SIZE, 3, I32ToBe(0), 2, <<>>) }

ReaderQueries == {<<0, 0>>, <<-1, -1>>, <<5, 5>>}

NoReader ==
  [pc |-> "idle", op |-> "nbt", x |-> 0, z |-> 0,
   location |-> DefaultLocation, data |-> IoNone, got |-> NbtNone]

ReadersInit ==
  /\ rpc = "opened" /\ chunks = <<>> /\ origin = "raw"
  /\ file \in ReaderFiles /\ region = RegionOpen(file)
  /\ query = <<0, 0>> /\ gotData = IoNone /\ got = NbtNone
  /\ readers = [r \in Readers |-> NoReader]
  /\ build \in BOOLEAN

\* a reader calls get_chunk_data(x, z) or get_chunk_nbt(x, z)
Call(r) ==
  /\ readers[r].pc = "idle"
  /\ \E q \in ReaderQueries, op \in {"data", "nbt"} :
       readers' = [readers EXCEPT ![r] = [NoReader EXCEPT !.pc = "called", !.op = op,
                                                          !.x = q[1], !.z = q[2]]]
  /\ UNCHANGED <<regionVars, build>>
  /\ UNCHANGED <<textVars, nbtVars, slotVars, layoutVars, streamVars, writerVars, prefixVars, stepVars>>

\* let location = self.header.locations[index]
ReadHeader(r) ==
  /\ readers[r].pc = "called"
  /\ LET index == ReaderIndex(readers[r].x, readers[r].z) IN
       /\ readers' = [readers EXCEPT ![r].pc = "located",
                                     ![r].location = region.locations[index]]
       /\ region' = HeaderAfterRead(region, index)
  /\ UNCHANGED <<rpc, chunks, file, origin, query, gotData, got, build>>
  /\ UNCHANGED <<textVars, nbtVars, slotVars, layoutVars, streamVars, writerVars, prefixVars, stepVars>>

\* the reads of self.mmap and the decoding; get_chunk_data returns
ReadMap(r) ==
  /\ readers[r].pc = "located"
  /\ readers' = [readers EXCEPT ![r].pc = IF readers[r].op = "data" THEN "done" ELSE "read",
                                ![r].data = ReadRecord(file, readers[r].location)]
  /\ UNCHANGED <<regionVars, build>>
  /\ UNCHANGED <<textVars, nbtVars, slotVars, layoutVars, streamVars, writerVars, prefixVars, stepVars>>

\* parse_named_tag on the decoded bytes; get_chunk_nbt returns
ParseRead(r) ==
  /\ readers[r].pc = "read"
  /\ readers' = [readers EXCEPT ![r].pc = "done",
                                ![r].got = ParseChunk(readers[r].data, build)]
  /\ UNCHANGED <<regionVars, build>>
  /\ UNCHANGED <<textVars, nbtVars, slotVars, layoutVars, streamVars, writerVars, prefixVars, stepVars>>

\* the reader has its result and is free to call again
Return(r) ==
  /\ readers[r].pc = "done"
  /\ readers' = [readers EXCEPT ![r] = NoReader]
  /\ UNCHANGED <<regionVars, build>>
  /\ UNCHANGED <<textVars, nbtVars, slotVars, layoutVars, streamVars, writerVars, prefixVars, stepVars>>

Calls == \E r \in Readers : Call(r)

HeaderReads == \E r \in Readers : ReadHeader(r)

MapReads == \E r \in Readers : ReadMap(r)

Parses == \E r \in Readers : ParseRead(r)

Returns == \E r \in Readers : Return(r)

ReadersNext == Calls \/ HeaderReads \/ MapReads \/ Parses \/ Returns

InitReaders ==
  ReadersInit /\ TextIdle /\ NbtIdle /\ SlotIdle /\ LayoutIdle /\ StreamIdle /\ WriterIdle
  /\ PrefixIdle /\ StepsIdle

SpecReaders == InitReaders /\ [][ReadersNext]_vars

(***************************************************************************)
(* write_all_chunks write by write, on a writer whose writes can fail      *)
(***************************************************************************)
\* the number of bytes of a record or of the header that a failing
\* write_all leaves written: none, the length field, the length field and
\* the compression byte, a whole sector
PartsWritten == {0, 4, 5, SECTOR_SIZE}

WriterInit ==
  /\ wpc = "loop" /\ wchunks \in ChunkLists /\ wst = NewWriter /\ wdone = 0
  /\ wlog = <<>> /\ wres = ""

\* one pass of the chunk loop, every write succeeding
WritePass ==
  /\ wpc = "loop" /\ wdone < Len(wchunks)
  /\ wst' = WriteChunk(wst, wchunks[wdone + 1])
  /\ wlog' = Append(wlog, <<wst.current_sector * SECTOR_SIZE,
                            (wst'.current_sector - wst.current_sector) * SECTOR_SIZE>>)
  /\ wdone' = wdone + 1
  /\ UNCHANGED <<wpc, wchunks, wres>>
  /\ UNCHANGED <<textVars, nbtVars, regionVars, slotVars, layoutVars, streamVars, readerVars, prefixVars, stepVars>>

\* a pass of the chunk loop in which a seek or write fails: `?` returns the
\* error, with part of the record written
FailPass ==
  /\ wpc = "loop" /\ wdone < Len(wchunks)
  /\ \E part \in PartsWritten :
       LET start == wst.current_sector * SECTOR_SIZE
           whole == WriteChunk(wst, wchunks[wdone + 1]).file
       IN /\ wst' = [wst EXCEPT !.file = IF part = 0 THEN wst.file
                                         ELSE WriteAt(wst.file, start,
                                                      Slice(whole, start, start + part))]
          /\ wlog' = IF part = 0 THEN wlog ELSE Append(wlog, <<start, part>>)
  /\ wpc' = "returned" /\ wres' = "Err"
  /\ UNCHANGED <<wchunks, wdone>>
  /\ UNCHANGED <<textVars, nbtVars, regionVars, slotVars, layoutVars, streamVars, readerVars, prefixVars, stepVars>>

\* after the loop: seek(SeekFrom::Start(0)), the locations, the timestamps
WriteHeader ==
  /\ wpc = "loop" /\ wdone = Len(wchunks)
  /\ wst' = [wst EXCEPT !.file = WriteAt(wst.file, 0, HeaderBytes(wst.locations))]
  /\ wlog' = Append(wlog, <<0, 2 * SECTOR_SIZE>>)
  /\ wpc' = "returned" /\ wres' = "Ok"
  /\ UNCHANGED <<wchunks, wdone>>
  /\ UNCHANGED <<textVars, nbtVars, regionVars, slotVars, layoutVars, streamVars, readerVars, prefixVars, stepVars>>

\* after the loop, a seek or write of the header fails
FailHeader ==
  /\ wpc = "loop" /\ wdone = Len(wchunks)
  /\ \E part \in PartsWritten :
       /\ wst' = [wst EXCEPT !.file =
                    IF part = 0 THEN wst.file
                    ELSE WriteAt(wst.file, 0, TakeBytes(HeaderBytes(wst.locations), part))]
       /\ wlog' = IF part = 0 THEN wlog ELSE Append(wlog, <<0, part>>)
  /\ wpc' = "returned" /\ wres' = "Err"
  /\ UNCHANGED <<wchunks, wdone>>
  /\ UNCHANGED <<textVars, nbtVars, regionVars, slotVars, layoutVars, streamVars, readerVars, prefixVars, stepVars>>

WriterNext == WritePass \/ FailPass \/ WriteHeader \/ FailHeader

InitWriter ==
  WriterInit /\ TextIdle /\ NbtIdle /\ RegionIdle /\ SlotIdle /\ LayoutIdle /\ StreamIdle
  /\ ReadersIdle /\ PrefixIdle /\ StepsIdle

SpecWriter == InitWriter /\ [][WriterNext]_vars

(***************************************************************************)
(* The length prefixes of the tag writer, on lengths around the ends of    *)
(* the ranges of u16 and i32.  A tag is given by its type id and the       *)
(* length its content has: bytes.len() of a String's or a name's modified  *)
(* UTF-8, v.len() of a ByteArray, List, IntArray or LongArray.             *)
(***************************************************************************)
MaxPrefixed == 20

\* the type ids of the tags written behind a count: ByteArray, List,
\* IntArray, LongArray
CountedTypeIds == {7, 9, 11, 12}

\* lengths up to MaxPrefixed, around u16::MAX and its multiples, and i32::MAX
LengthSamples ==
  (0..MaxPrefixed) \cup {65534, 65535, 65536, 65537, 65636, 131071, 131072, MaxI32}

PrefixInit ==
  /\ xpc = "content" /\ xkind \in CountedTypeIds \cup {8} /\ xlen \in LengthSamples
  /\ xprefix = <<>> /\ xafter = 0

\* write_nbt_string: the prefix, then write_all(&bytes)
WriteStringPrefixed ==
  /\ xpc = "content" /\ xkind = 8
  /\ xprefix' = StringPrefix(xlen)
  /\ xafter' = xlen
  /\ xpc' = "written"
  /\ UNCHANGED <<xkind, xlen>>
  /\ UNCHANGED <<textVars, nbtVars, regionVars, slotVars, layoutVars, streamVars, readerVars, writerVars, stepVars>>

\* the ByteArray, List, IntArray and LongArray arms of write_tag_payload: the
\* count, then every byte or element of v
WriteCounted ==
  /\ xpc = "content" /\ xkind \in CountedTypeIds
  /\ xprefix' = CountPrefix(xlen)
  /\ xafter' = xlen
  /\ xpc' = "written"
  /\ UNCHANGED <<xkind, xlen>>
  /\ UNCHANGED <<textVars, nbtVars, regionVars, slotVars, layoutVars, streamVars, readerVars, writerVars, stepVars>>

PrefixNext == WriteStringPrefixed \/ WriteCounted

InitPrefix ==
  PrefixInit /\ TextIdle /\ NbtIdle /\ RegionIdle /\ SlotIdle /\ LayoutIdle /\ StreamIdle
  /\ ReadersIdle /\ WriterIdle /\ StepsIdle

SpecPrefix == InitPrefix /\ [][PrefixNext]_vars

(***************************************************************************)
(* parse_named_tag step by step.  One step is one read of the ByteReader   *)
(* or one turn of control between reads; qtasks holds what the calls in    *)
(* progress still have to do, innermost first:                             *)
(*   <<"payload", t>>     parse_tag_payload(reader, t)                     *)
(*   <<"fixed", w>>       a read of w bytes (read_i8 .. read_f64)          *)
(*   <<"strlen">>         parse_nbt_string, before read_u16                *)
(*   <<"strbytes", n>>    parse_nbt_string, before read_bytes(n)           *)
(*   <<"count", w>>       an array arm, before read_i32; w bytes a piece   *)
(*   <<"bytes", n>>       an array arm, before read_bytes(n); n = -1 for a *)
(*                        length past every input                          *)
(*   <<"elemtype">>       the List arm, before read_u8                     *)
(*   <<"listcount", t>>   the List arm, before read_i32                    *)
(*   <<"list", t, i, n>>  the List arm's loop: i of n elements read        *)
(*   <<"entry", before>>  the Compound arm's loop: the input length at the *)
(*                        start of the iteration before this one, or -1    *)
(* The inputs are the bytes written for the sample documents named "a",    *)
(* every prefix of them, and byte streams given as such.                   *)
(***************************************************************************)
MaxStepUnits == 3

\* a List and an IntArray, both named "", whose count is negative
NegativeCounts == {<<9, 0, 0, 1, 255, 0, 0, 0>>, <<11, 0, 0, 255, 255, 255, 255>>}

StepTags == BaseTags \cup UNION {Nest(t) : t \in BaseTags}

StepInputs ==
  UNION {{TakeBytes(write_named_tag(<<97>>, t), k) :
            k \in 0..Len(write_named_tag(<<97>>, t))} : t \in StepTags}
  \cup {Flatten(us) : us \in SeqsUpTo(RawUnits, MaxStepUnits)}
  \cup {NamedByteExample, DuplicateNameExample} \cup NegativeCounts

StepsInit ==
  /\ qpc = "start" /\ qin \in StepInputs /\ qoc \in BOOLEAN /\ qdata = qin
  /\ qtasks = <<>> /\ qread = NoRead /\ qres = NoError

\* a read of `width` bytes whose outcome is r: the reader moves on and `next`
\* is what remains to do, or `?` returns the error from every call
AfterRead(r, width, next) ==
  /\ qread' = [width |-> width, ok |-> IsOk(r), before |-> Len(qdata)]
  /\ IF IsOk(r)
     THEN qdata' = r.rest /\ qtasks' = next /\ qpc' = "run" /\ qres' = qres
     ELSE qdata' = qdata /\ qtasks' = <<>> /\ qpc' = "done" /\ qres' = r.err

\* an error or a panic raised between reads
Stop(err) ==
  /\ qdata' = qdata /\ qtasks' = <<>> /\ qpc' = "done" /\ qres' = err
  /\ qread' = NoRead

\* a turn of control that reads nothing
Turn(next) ==
  /\ qdata' = qdata /\ qtasks' = next /\ qpc' = "run" /\ qres' = qres
  /\ qread' = NoRead

TopIs(kind) == qpc = "run" /\ qtasks # <<>> /\ Head(qtasks)[1] = kind

\* parse_named_tag: reader.read_u8(), then the test tag_type == 0
ReadRootType ==
  /\ qpc = "start"
  /\ IF IsOk(read_u8(qdata)) /\ read_u8(qdata).val = 0
     THEN /\ qdata' = read_u8(qdata).rest /\ qtasks' = <<>> /\ qpc' = "done"
          /\ qres' = NoError
          /\ qread' = [width |-> 1, ok |-> TRUE, before |-> Len(qdata)]
     ELSE AfterRead(read_u8(qdata), 1, <<<<"strlen">>, <<"payload", read_u8(qdata).val>>>>)
  /\ UNCHANGED <<qin, qoc>>
  /\ UNCHANGED <<textVars, nbtVars, regionVars, slotVars, layoutVars, streamVars, readerVars, writerVars, prefixVars>>

\* the bytes a number of a type takes
FixedWidth(t) ==
  CASE t = 1 -> 1 [] t = 2 -> 2 [] t = 3 -> 4 [] t = 4 -> 8 [] t = 5 -> 4 [] t = 6 -> 8

\* what the arm of parse_tag_payload for type id t starts with
FirstTask(t) ==
  CASE t \in 1..6 -> <<"fixed", FixedWidth(t)>>
    [] t = 7 -> <<"count", 1>>
    [] t = 8 -> <<"strlen">>
    [] t = 9 -> <<"elemtype">>
    [] t = 10 -> <<"entry", -1>>
    [] t = 11 -> <<"count", 4>>
    [] t = 12 -> <<"count", 8>>

\* parse_tag_payload: match type_id
Dispatch ==
  /\ TopIs("payload")
  /\ LET t == Head(qtasks)[2] IN
     IF t = 0 THEN Turn(Tail(qtasks))
     ELSE IF t \in 1..12 THEN Turn(<<FirstTask(t)>> \o Tail(qtasks))
     ELSE Stop(InvalidTag(t))
  /\ UNCHANGED <<qin, qoc>>
  /\ UNCHANGED <<textVars, nbtVars, regionVars, slotVars, layoutVars, streamVars, readerVars, writerVars, prefixVars>>

\* read_i8, read_i16, read_i32, read_i64, read_f32, read_f64
ReadFixed ==
  /\ TopIs("fixed")
  /\ LET w == Head(qtasks)[2] IN
     AfterRead(CASE w = 1 -> read_u8(qdata) [] w = 2 -> read_u16(qdata)
                 [] w = 4 -> read_i32(qdata) [] w = 8 -> read_i64(qdata),
               w, Tail(qtasks))
  /\ UNCHANGED <<qin, qoc>>
  /\ UNCHANGED <<textVars, nbtVars, regionVars, slotVars, layoutVars, streamVars, readerVars, writerVars, prefixVars>>

\* parse_nbt_string: reader.read_u16()? as usize
ReadStringLength ==
  /\ TopIs("strlen")
  /\ AfterRead(read_u16(qdata), 2, <<<<"strbytes", read_u16(qdata).val>>>> \o Tail(qtasks))
  /\ UNCHANGED <<qin, qoc>>
  /\ UNCHANGED <<textVars, nbtVars, regionVars, slotVars, layoutVars, streamVars, readerVars, writerVars, prefixVars>>

\* parse_nbt_string: reader.read_bytes(len)?, then decode_mutf8
ReadStringBytes ==
  /\ TopIs("strbytes")
  /\ IF IsOk(read_bytes(qdata, Usize(Head(qtasks)[2])))
        /\ ~decode_mutf8(read_bytes(qdata, Usize(Head(qtasks)[2])).val).ok
     THEN /\ qdata' = read_bytes(qdata, Usize(Head(qtasks)[2])).rest
          /\ qtasks' = <<>> /\ qpc' = "done" /\ qres' = InvalidString
          /\ qread' = [width |-> Head(qtasks)[2], ok |-> TRUE, before |-> Len(qdata)]
     ELSE AfterRead(read_bytes(qdata, Usize(Head(qtasks)[2])), Head(qtasks)[2], Tail(qtasks))
  /\ UNCHANGED <<qin, qoc>>
  /\ UNCHANGED <<textVars, nbtVars, regionVars, slotVars, layoutVars, streamVars, readerVars, writerVars, prefixVars>>

\* the array arms: reader.read_i32()? as usize, and len * 4 or len * 8
ReadArrayCount ==
  /\ TopIs("count")
  /\ LET w == Head(qtasks)[2]
         r == read_i32(qdata)
     IN IF IsOk(r) /\ w > 1 /\ qoc /\ UsizeMulOverflows(I32AsUsize(r.val), w)
        THEN /\ qdata' = r.rest /\ qtasks' = <<>> /\ qpc' = "done" /\ qres' = Panicked
             /\ qread' = [width |-> 4, ok |-> TRUE, before |-> Len(qdata)]
        ELSE AfterRead(r, 4,
                       <<<<"bytes",
                           LET len == IF w = 1 THEN I32AsUsize(r.val)
                                      ELSE UsizeMul(I32AsUsize(r.val), w)
                           IN IF len.huge THEN -1 ELSE len.n>>>> \o Tail(qtasks))
  /\ UNCHANGED <<qin, qoc>>
  /\ UNCHANGED <<textVars, nbtVars, regionVars, slotVars, layoutVars, streamVars, readerVars, writerVars, prefixVars>>

\* the array arms: reader.read_bytes(len)?
ReadArrayBytes ==
  /\ TopIs("bytes")
  /\ LET n == Head(qtasks)[2] IN
     AfterRead(read_bytes(qdata, IF n < 0 THEN UsizeHuge ELSE Usize(n)), n, Tail(qtasks))
  /\ UNCHANGED <<qin, qoc>>
  /\ UNCHANGED <<textVars, nbtVars, regionVars, slotVars, layoutVars, streamVars, readerVars, writerVars, prefixVars>>

\* the List arm: let element_type = reader.read_u8()?
ReadElementType ==
  /\ TopIs("elemtype")
  /\ AfterRead(read_u8(qdata), 1, <<<<"listcount", read_u8(qdata).val>>>> \o Tail(qtasks))
  /\ UNCHANGED <<qin, qoc>>
  /\ UNCHANGED <<textVars, nbtVars, regionVars, slotVars, layoutVars, streamVars, readerVars, writerVars, prefixVars>>

\* the List arm: reader.read_i32()? as usize, then Vec::with_capacity(len)
ReadListCount ==
  /\ TopIs("listcount")
  /\ LET r == read_i32(qdata) IN
     IF IsOk(r) /\ WithCapacityPanics(I32AsUsize(r.val))
     THEN /\ qdata' = r.rest /\ qtasks' = <<>> /\ qpc' = "done" /\ qres' = Panicked
          /\ qread' = [width |-> 4, ok |-> TRUE, before |-> Len(qdata)]
     ELSE AfterRead(r, 4, <<<<"list", Head(qtasks)[2], 0, r.val>>>> \o Tail(qtasks))
  /\ UNCHANGED <<qin, qoc>>
  /\ UNCHANGED <<textVars, nbtVars, regionVars, slotVars, layoutVars, streamVars, readerVars, writerVars, prefixVars>>

\* the List arm: for _ in 0..len { elements.push(parse_tag_payload(..)?) }
ListIterate ==
  /\ TopIs("list")
  /\ LET t == Head(qtasks)[2]
         i == Head(qtasks)[3]
         len == Head(qtasks)[4]
     IN IF i < len
        THEN Turn(<<<<"payload", t>>, <<"list", t, i + 1, len>>>> \o Tail(qtasks))
        ELSE Turn(Tail(qtasks))
  /\ UNCHANGED <<qin, qoc>>
  /\ UNCHANGED <<textVars, nbtVars, regionVars, slotVars, layoutVars, streamVars, readerVars, writerVars, prefixVars>>

\* the Compound arm: loop { let tag_type = reader.read_u8()?; if tag_type == 0
\* { break } name, payload, insert }
ReadEntryType ==
  /\ TopIs("entry")
  /\ LET r == read_u8(qdata) IN
     AfterRead(r, 1,
               IF r.val = 0 THEN Tail(qtasks)
               ELSE <<<<"strlen">>, <<"payload", r.val>>, <<"entry", Len(qdata)>>>>
                    \o Tail(qtasks))
  /\ UNCHANGED <<qin, qoc>>
  /\ UNCHANGED <<textVars, nbtVars, regionVars, slotVars, layoutVars, streamVars, readerVars, writerVars, prefixVars>>

\* parse_named_tag: *input = reader.data; Ok((name, payload))
Finish ==
  /\ qpc = "run" /\ qtasks = <<>>
  /\ qpc' = "done" /\ qres' = NoError
  /\ UNCHANGED <<qin, qoc, qdata, qtasks, qread>>
  /\ UNCHANGED <<textVars, nbtVars, regionVars, slotVars, layoutVars, streamVars, readerVars, writerVars, prefixVars>>

StepsNext ==
  ReadRootType \/ Dispatch \/ ReadFixed \/ ReadStringLength \/ ReadStringBytes
  \/ ReadArrayCount \/ ReadArrayBytes \/ ReadElementType \/ ReadListCount
  \/ ListIterate \/ ReadEntryType \/ Finish

InitSteps ==
  StepsInit /\ TextIdle /\ NbtIdle /\ RegionIdle /\ SlotIdle /\ LayoutIdle /\ StreamIdle
  /\ ReadersIdle /\ WriterIdle /\ PrefixIdle

\* every call in progress is run on: the thread is not stopped from outside
SpecSteps == InitSteps /\ [][StepsNext]_vars /\ WF_vars(StepsNext)

(***************************************************************************)
(* Modified UTF-8 as the format defines it, for stating the text claims.   *)
(* MScan reads b sequence by sequence, by lead byte: one byte below 0x80,  *)
(* two bytes for a lead in C0..DF, three for a lead in E0..EF.  It returns *)
(* the code units read and how the reading ended: "ok", "truncated" (the   *)
(* input ends inside a sequence), "continuation" (a byte after the lead is *)
(* not 10xxxxxx) or "lead" (a byte that starts no sequence).               *)
(***************************************************************************)
IsContinuation(b) == b >= 128 /\ b <= 191

RECURSIVE MScan(_, _)
MScan(b, acc) ==
  IF b = <<>> THEN [end |-> "ok", units |-> acc]
  ELSE LET l == b[1] IN
    IF l < 128 THEN MScan(Tail(b), Append(acc, [u |-> l, n |-> 1]))
    ELSE IF l >= 192 /\ l <= 223 THEN
      IF Len(b) < 2 THEN [end |-> "truncated", units |-> acc]
      ELSE IF ~IsContinuation(b[2]) THEN [end |-> "continuation", units |-> acc]
      ELSE MScan(SubSeq(b, 3, Len(b)),
                 Append(acc, [u |-> (l - 192) * 64 + (b[2] - 128), n |-> 2]))
    ELSE IF l >= 224 /\ l <= 239 THEN
      IF Len(b) < 3 THEN [end |-> "truncated", units |-> acc]
      ELSE IF ~IsContinuation(b[2]) \/ ~IsContinuation(b[3])
        THEN [end |-> "continuation", units |-> acc]
      ELSE MScan(SubSeq(b, 4, Len(b)),
                 Append(acc, [u |-> (l - 224) * 4096 + (b[2] - 128) * 64 + (b[3] - 128),
                              n |-> 3]))
    ELSE [end |-> "lead", units |-> acc]

IsHigh(u) == u >= 55296 /\ u <= 56319

IsLow(u) == u >= 56320 /\ u <= 57343

\* every surrogate among the units is half of an adjacent high-then-low pair
SurrogatesPaired(units) ==
  \A i \in 1..Len(units) :
    /\ IsHigh(units[i].u) => i < Len(units) /\ IsLow(units[i + 1].u)
    /\ IsLow(units[i].u) => i > 1 /\ IsHigh(units[i - 1].u)

\* well-formed in the sense of C4: only sequences of the three forms, no
\* byte 00, correct continuation bytes, surrogates only in pairs
WellFormedMutf8(b) ==
  LET sc == MScan(b, <<>>) IN
  /\ sc.end = "ok"
  /\ \A i \in 1..Len(b) : b[i] # 0
  /\ SurrogatesPaired(sc.units)

\* every sequence is the shortest one for its code unit (NUL being C0 80)
ShortestForm(b) ==
  LET sc == MScan(b, <<>>) IN
  \A i \in 1..Len(sc.units) :
    LET x == sc.units[i] IN
    /\ x.n = 2 => x.u = 0 \/ x.u >= 128
    /\ x.n = 3 => x.u >= 2048

\* malformed in the sense of C7: a truncated sequence, a bad continuation
\* byte, or a surrogate outside a high-then-low pair
MalformedMutf8(b) ==
  LET sc == MScan(b, <<>>) IN
  \/ sc.end \in {"truncated", "continuation"}
  \/ sc.end = "ok" /\ ~SurrogatesPaired(sc.units)

(***************************************************************************)
(* Claims about the text codec (under SpecText)                            *)
(***************************************************************************)
\* C3: for every text s, NUL and supplementary characters included,
\* decode_mutf8(encode_mutf8(s)) succeeds and equals s.
C3_TextRoundTrip == tpc = "text_back" => tres.ok /\ tres.s = str

C3_Witness ==
  /\ tpc = "text_back" /\ tres.ok /\ tres.s = str
  /\ \E i, j \in 1..Len(str) : str[i] = 0 /\ str[j] >= 65536

\* C4 as stated: for every well-formed b (overlong sequences included),
\* decode_mutf8(b) succeeds and encode_mutf8 of it equals b.
C4_Original ==
  /\ tpc \in {"decoded", "bytes_back"} /\ WellFormedMutf8(mbytes) => tres.ok
  /\ tpc = "bytes_back" /\ WellFormedMutf8(mbytes) => reenc = mbytes

\* C4 amended: for every well-formed b in which every sequence is the
\* shortest form of its code unit (NUL being C0 80), decode_mutf8(b)
\* succeeds and encode_mutf8 of it equals b.
C4_BytesRoundTrip ==
  /\ tpc \in {"decoded", "bytes_back"} /\ WellFormedMutf8(mbytes) /\ ShortestForm(mbytes)
       => tres.ok
  /\ tpc = "bytes_back" /\ WellFormedMutf8(mbytes) /\ ShortestForm(mbytes)
       => reenc = mbytes

C4_Witness ==
  /\ tpc = "bytes_back" /\ reenc = mbytes
  /\ mbytes = <<192, 128, 237, 160, 128, 237, 176, 128>>

\* C7: decode_mutf8 fails on every input with a truncated sequence, a bad
\* continuation byte or an unpaired surrogate, and parse_nbt_string reports
\* the failure as InvalidString.
C7_Original ==
  tpc = "decoded" /\ MalformedMutf8(mbytes) =>
    ~tres.ok /\ sres.err = InvalidString

(***************************************************************************)
(* Claims about the tag codec (under SpecNbt)                              *)
(***************************************************************************)
\* every list holds elements of one type
RECURSIVE Homogeneous(_)
Homogeneous(tag) ==
  CASE tag[1] = 9 ->
         \A k \in 1..Len(tag[2]) :
           tag[2][k][1] = tag[2][1][1] /\ Homogeneous(tag[2][k])
    [] tag[1] = 10 -> \A k \in 1..Len(tag[2]) : Homogeneous(EntryTag(tag[2][k]))
    [] OTHER -> TRUE

\* no compound entry holds an End tag
RECURSIVE NoEndEntry(_)
NoEndEntry(tag) ==
  CASE tag[1] = 9 -> \A k \in 1..Len(tag[2]) : NoEndEntry(tag[2][k])
    [] tag[1] = 10 ->
         \A k \in 1..Len(tag[2]) :
           EntryTag(tag[2][k])[1] # 0 /\ NoEndEntry(EntryTag(tag[2][k]))
    [] OTHER -> TRUE

\* the documents the format can carry: homogeneous lists, End only as a
\* list element or as the root of the document with the empty name
Representable(d) ==
  /\ Homogeneous(d.tag) /\ NoEndEntry(d.tag)
  /\ d.tag[1] = 0 => d.name = <<>>

ReturnsDoc == pres.err = NoError /\ pres.name = doc.name /\ pres.tag = doc.tag

\* C1 as stated: for every name and every tag tree with homogeneous lists,
\* parse_named_tag of the bytes of write_named_tag(name, tag) returns (name, tag).
C1_Original ==
  npc = "parsed" /\ how = "whole" /\ Homogeneous(doc.tag) => ReturnsDoc

\* C1 amended: ... for every name and every tag tree with homogeneous lists
\* in which no Compound entry is an End tag, the name being empty when the
\* tree itself is End, parse_named_tag returns exactly (name, tag).
C1_RoundTrip ==
  npc = "parsed" /\ how = "whole" /\ Representable(doc) => ReturnsDoc

C1_Witness ==
  /\ npc = "parsed" /\ how = "whole" /\ ReturnsDoc
  /\ doc.tag = TestDocument /\ doc.name = <<0, 128512>>

\* C5: for every valid document, parse_named_tag on every proper prefix of
\* the written bytes fails with UnexpectedEof.
C5_Original ==
  npc = "parsed" /\ how = "truncated" /\ Representable(doc) =>
    pres.err = UnexpectedEof

\* the positions of buf whose byte parse_named_tag reads as the root type
\* id or as a compound entry's type id: the root, the patched entry of a
\* representable document, the first entry of a given stream
ReadAsTypeId ==
  {1}
  \cup (IF how = "patched" /\ site.kind \in {"entry", "end"} /\ Representable(doc)
        THEN {site.pos} ELSE {})
  \cup (IF how = "raw" /\ Len(buf) > 0 /\ buf[1] = 10
           /\ IsOk(parse_nbt_string(Tail(buf)))
        THEN {Len(buf) - Len(parse_nbt_string(Tail(buf)).rest) + 1} ELSE {})

BadTypeIdAt(p) == p >= 1 /\ p <= Len(buf) /\ buf[p] \notin 0..12

\* C6 as stated: parse_tag_payload(reader, t) fails with InvalidTag(t) for t
\* outside 0..12, and parse_named_tag fails with InvalidTag(t) on a stream
\* whose root or compound-entry type id is such a t.
C6_Original ==
  /\ npc = "payload" => ppres.err.kind = "InvalidTag" /\ ppres.err.id = tid
  /\ npc = "parsed" =>
       \A p \in ReadAsTypeId :
         BadTypeIdAt(p) => pres.err.kind = "InvalidTag" /\ pres.err.id = buf[p]

\* C6 amended: parse_tag_payload(reader, t) fails with InvalidTag(t) for t
\* outside 0..12; parse_named_tag on a stream whose root or compound-entry
\* type id is such a t fails with InvalidTag(t) when the name that follows
\* the type id is complete and well-formed, and with that name's
\* UnexpectedEof or InvalidString otherwise; it never succeeds or panics.
C6_InvalidTag ==
  /\ npc = "payload" => ppres.err.kind = "InvalidTag" /\ ppres.err.id = tid
  /\ npc = "parsed" =>
       \A p \in ReadAsTypeId :
         BadTypeIdAt(p) =>
           LET name == parse_nbt_string(DropBytes(buf, p)) IN
           IF IsOk(name)
           THEN pres.err.kind = "InvalidTag" /\ pres.err.id = buf[p]
           ELSE pres.err = name.err /\ pres.err.kind \in {"UnexpectedEof", "InvalidString"}

C6_Witness ==
  /\ npc = "parsed" /\ how = "patched" /\ site.kind = "entry"
  /\ doc.tag = TestDocument /\ site.pos > 20
  /\ pres.err.kind = "InvalidTag" /\ pres.err.id = 13

(***************************************************************************)
(* Claims about the slot index (under SpecSlot)                            *)
(***************************************************************************)
\* the slot of a coordinate pair by floor modulo (TLA+'s % is the floor
\* modulo for a positive modulus)
SlotOf(x, z) == (z % 32) * 32 + (x % 32)

\* C8: for all 32-bit signed x and z, the index computed by get_chunk_data
\* and the index computed by write_all_chunks both equal
\* floorMod(z, 32) * 32 + floorMod(x, 32), which lies in 0..1023; (-1, -1)
\* gets the slot of (31, 31).
C8_SlotIndex ==
  /\ spc \in {"reader", "both"} => rslot = SlotOf(sx, sz)
  /\ spc \in {"writer", "both"} => wslot = SlotOf(sx, sz)
  /\ SlotOf(sx, sz) \in 0..1023
  /\ spc = "both" /\ sx = -1 /\ sz = -1 => rslot = 31 * 32 + 31 /\ wslot = 31 * 32 + 31

C8_Witness == spc = "both" /\ sx = -1 /\ sz = MinI32 /\ rslot = 31 /\ wslot = 31

(***************************************************************************)
(* Claims about the region container (under SpecRegion)                    *)
(***************************************************************************)
ChunkSlot(c) == SlotOf(c.x, c.z)

DistinctSlots ==
  \A i, j \in 1..Len(chunks) : i # j => ChunkSlot(chunks[i]) # ChunkSlot(chunks[j])

ReadsBack(c) == got.kind = "Some" /\ got.name = c.name /\ got.tag = c.tag

Unwritten(slot) == \A k \in 1..Len(chunks) : ChunkSlot(chunks[k]) # slot

\* C9: after write_all_chunks on any chunk list, every slot no chunk of the
\* list maps to has location (offset 0, sector_count 0) in the written
\* header (and in the opened Region), and get_chunk_nbt at coordinates of
\* such a slot returns Ok(None).
C9_UnwrittenSlots ==
  origin = "writer" /\ rpc # "chunks" =>
    /\ LET written == {ChunkSlot(chunks[k]) : k \in 1..Len(chunks)}
           nonzero == DOMAIN file.data
       IN \A slot \in (0..1023) \ written :
            /\ \A j \in 0..3 : 4 * slot + j \notin nonzero
            /\ region.ok => region.locations[slot] = ChunkLocation(0, 0)
    /\ rpc = "nbt" /\ Unwritten(SlotOf(query[1], query[2])) => got.kind = "None"

C9_Witness ==
  /\ origin = "writer" /\ rpc = "nbt" /\ Len(chunks) = 1
  /\ chunks[1].x = 0 /\ chunks[1].z = 0 /\ query = <<5, 5>>
  /\ region.locations[0].offset = 2 /\ got.kind = "None"

\* the offset in the header of the slot asked for, read from the file
QueryOffset ==
  LET at == 4 * SlotOf(query[1], query[2])
  IN ByteAt(file, at) * 65536 + ByteAt(file, at + 1) * 256 + ByteAt(file, at + 2)

\* the file holds the four bytes of a length field at sector off
HasLengthField(off) == off <= (file.len - 4) \div SECTOR_SIZE

LengthFieldZero(off) ==
  HasLengthField(off) /\ \A j \in 0..3 : ByteAt(file, off * SECTOR_SIZE + j) = 0

Absent == QueryOffset = 0 \/ LengthFieldZero(QueryOffset)

\* a present chunk whose compression-type byte is in the file and is not 1, 2 or 3
BadCompressionType ==
  /\ ~Absent /\ HasLengthField(QueryOffset)
  /\ QueryOffset * SECTOR_SIZE + 4 < file.len
  /\ ByteAt(file, QueryOffset * SECTOR_SIZE + 4) \notin {1, 2, 3}

\* a present chunk whose payload get_chunk_data returns and parse_named_tag
\* rejects with an error
RejectedPayload ==
  LET payload == get_chunk_data(file, region, query[1], query[2]) IN
  /\ ~Absent /\ payload.kind = "Some"
  /\ \E oc \in BOOLEAN :
       parse_named_tag(payload.data, oc).err.kind
         \in {"UnexpectedEof", "InvalidTag", "InvalidString"}

\* C10: get_chunk_data and get_chunk_nbt return Ok(None) exactly when the
\* slot's offset is 0 or the length field at offset * 4096 is 0; for a
\* present chunk a compression-type byte outside {1, 2, 3} yields an
\* InvalidData error, and a payload parse_named_tag rejects yields an error.
C10_AbsentOrError ==
  /\ rpc = "data" =>
       /\ gotData.kind = "None" <=> Absent
       /\ BadCompressionType => gotData.kind = "Err" /\ gotData.err = "InvalidData"
  /\ rpc = "nbt" =>
       /\ got.kind = "None" <=> Absent
       /\ BadCompressionType => got.kind = "Err" /\ got.err = "InvalidData"
       /\ RejectedPayload => got.kind = "Err"

C10_Witness ==
  /\ origin = "raw" /\ rpc = "nbt" /\ query = <<MinI32, 32>>
  /\ RejectedPayload /\ ByteAt(file, 2 * SECTOR_SIZE + 4) = 2
  /\ got.kind = "Err" /\ got.err = "InvalidData"

(***************************************************************************)
(* Claims about the layout of the written file (under SpecLayout)          *)
(***************************************************************************)
\* the sectors a record of 4 + 1 + compressed_len bytes occupies
RecordSectors(compressed_len) == (compressed_len + 5 + SECTOR_SIZE - 1) \div SECTOR_SIZE

\* C11: write_all_chunks fails with an explicit error whenever a chunk's
\* record needs more than 255 sectors; it never records a wrapped or
\* truncated sector_count.
C11_Original ==
  /\ kpc = "done" /\ (\E i \in 1..Len(klens) : RecordSectors(klens[i]) > U8Max)
       => kres = "Err"
  /\ \A i \in 1..Len(klay.records) :
       klay.records[i].location.sector_count = RecordSectors(klens[i])

(***************************************************************************)
(* Claims about opening a region (under SpecRegion)                        *)
(***************************************************************************)
\* the first two sectors of the file, and nothing else
HeaderOnly ==
  [len |-> 2 * SECTOR_SIZE,
   data |-> [i \in {j \in DOMAIN file.data : j < 2 * SECTOR_SIZE} |-> file.data[i]]]

\* the value of the four bytes of the file from byte `at` on, big-endian, as
\* the pair of its high and low 16 bits
HighLow(at) ==
  <<ByteAt(file, at) * 256 + ByteAt(file, at + 1),
    ByteAt(file, at + 2) * 256 + ByteAt(file, at + 3)>>

\* C12: Region::open fails with InvalidData when the file is shorter than
\* 2 * 4096 bytes; otherwise it succeeds with 1024 locations (3-byte
\* big-endian offset, 1-byte count) and 1024 big-endian timestamps decoded
\* from the first two sectors, whatever the data sectors hold.
C12_OpenHeader ==
  rpc \in {"opened", "refused"} =>
    IF file.len < 2 * SECTOR_SIZE
    THEN ~region.ok /\ region.err = "InvalidData" /\ rpc = "refused"
    ELSE /\ region.ok
         /\ DOMAIN region.locations = 0..1023 /\ DOMAIN region.timestamps = 0..1023
         /\ \A i \in 0..1023 :
              /\ region.locations[i].offset
                   = ByteAt(file, 4 * i) * 65536 + ByteAt(file, 4 * i + 1) * 256
                     + ByteAt(file, 4 * i + 2)
              /\ region.locations[i].sector_count = ByteAt(file, 4 * i + 3)
              /\ region.timestamps[i] = HighLow(SECTOR_SIZE + 4 * i)
         /\ region = RegionOpen(HeaderOnly)

C12_Witness ==
  /\ rpc = "opened" /\ file.len = 2 * SECTOR_SIZE + 1
  /\ region.locations[1023] = ChunkLocation(66051, 4)
  /\ region.timestamps[5] = <<258, 772>>

(***************************************************************************)
(* Claims about reading past the end of the file (under SpecRegion)        *)
(***************************************************************************)
\* the record of the slot asked for starts or ends past the end of the
\* file: its sector lies past the end, or its length field, where the file
\* holds one, counts more bytes than the file has after it
PointsPastEnd ==
  /\ QueryOffset # 0
  /\ \/ QueryOffset > (file.len - 1) \div SECTOR_SIZE
     \/ /\ HasLengthField(QueryOffset)
        /\ LET length == HighLow(QueryOffset * SECTOR_SIZE)
           IN \/ length[1] >= 32768
              \/ length[1] * 65536 + length[2] > file.len - QueryOffset * SECTOR_SIZE - 4

\* C13: get_chunk_data never reads outside the opened file: when the slot's
\* offset * 4096 or the chunk's length field points past the end of the
\* file, it returns an error and does not panic.
C13_Original ==
  rpc = "data" =>
    /\ gotData.kind # "Panic"
    /\ PointsPastEnd => gotData.kind = "Err"

(***************************************************************************)
(* Claims about documents read one after the other (under SpecStream)      *)
(***************************************************************************)
\* the bytes the last call consumed
Consumed == TakeBytes(cprev, Len(cprev) - Len(cin))

\* what parse_named_tag returns for b alone
Alone(b) == parse_named_tag(b, FALSE)

\* the last call returned a document and left the input just past it: the
\* input is what followed the consumed bytes, and the consumed bytes alone
\* parse to the same document
JustPast ==
  /\ Len(cin) <= Len(cprev)
  /\ cin = DropBytes(cprev, Len(cprev) - Len(cin))
  /\ Alone(Consumed).err = NoError /\ Alone(Consumed).input = <<>>
  /\ Alone(Consumed).name = cres.name
  /\ Alone(Consumed).tag[1] = cres.tag[1] /\ Alone(Consumed).tag = cres.tag

\* b holds one encoded document and nothing else
IsDocument(b) == Alone(b).err = NoError /\ Alone(b).input = <<>>

\* the k-th call returned the document the k-th byte string encodes
ReturnedUnit(k) ==
  /\ cout[k][1] = Alone(cunits[k]).name
  /\ cout[k][2][1] = Alone(cunits[k]).tag[1] /\ cout[k][2] = Alone(cunits[k]).tag

\* C14: parse_named_tag on an input whose first byte is 0 returns ("", End)
\* and consumes only that byte; any other successful call leaves the input
\* just past the document; hence repeated calls on the concatenation of n
\* encoded documents return the n documents in order and end with the input
\* empty.
C14_ReadsConcatenated ==
  /\ cprev # <<>> /\ cprev[1] = 0 =>
       /\ cres.err = NoError /\ cres.name = <<>> /\ cres.tag[1] = 0
       /\ cin = Tail(cprev)
  /\ cprev # <<>> /\ cprev[1] # 0 /\ cres.err = NoError => JustPast
  /\ cpc \in {"stream", "raw"} /\ (\A k \in 1..Len(cunits) : IsDocument(cunits[k])) =>
       /\ cres.err = NoError
       /\ Len(cout) <= Len(cunits)
       /\ \A k \in 1..Len(cout) : ReturnedUnit(k)
       /\ cin = <<>> <=> Len(cout) = Len(cunits)

\* three documents read from one input, the last an empty document
C14_Witness ==
  /\ cpc = "raw" /\ cunits = <<<<1, 0, 0, 5>>, <<10, 0, 0, 0>>, <<0>>>>
  /\ cprev = <<0>> /\ cin = <<>> /\ Len(cout) = 3
  /\ cout[1] = <<<<>>, Tag(1, 5)>> /\ cout[3] = <<<<>>, TagEnd>>

(***************************************************************************)
(* Claims about failures of parse_named_tag (under SpecNbt)                *)
(***************************************************************************)
\* the error of parse_named_tag on the first j bytes of buf
ErrorOfPrefix(j) == parse_named_tag(TakeBytes(buf, j), FALSE).err

\* the prefixes of buf that are not themselves inputs of the model: every cut
\* of a written document is one (Truncate), so only the last cut is read
\* again here, and of a patched document the cuts from the patched byte on
ScannedFrom ==
  CASE how \in {"whole", "truncated"} -> Len(buf) - 1
    [] how = "patched" -> site.pos - 1
    [] OTHER -> 0

\* The error returned is the first one met when reading buf from its start:
\* every prefix of buf is either merely too short or shows the error
\* returned, and once a prefix shows it no byte that follows changes it
FirstError ==
  \A j \in ScannedFrom..(Len(buf) - 1) :
    \/ ErrorOfPrefix(j) = UnexpectedEof
    \/ ErrorOfPrefix(j) = pres.err /\ ErrorOfPrefix(j + 1) = pres.err

\* C15: when parse_named_tag fails anywhere inside a document it returns
\* only the first error met, no partly built tag, and the caller's input
\* slice is as it was before the call.
C15_FailsWhole ==
  npc = "parsed" /\ pres.err.kind \notin {"Ok", "Panic"} =>
    /\ pres.input = buf
    /\ pres.name = <<>> /\ pres.tag[1] = NoValue[1] /\ pres.tag = NoValue
    /\ FirstError

\* a root compound whose name is malformed, followed by an entry of type 13
C15_Witness ==
  /\ npc = "parsed" /\ buf = <<10, 0, 1, 195, 13, 0, 0>>
  /\ pres.err = InvalidString /\ pres.input = buf

(***************************************************************************)
(* Claims about array counts (under SpecNbt)                               *)
(***************************************************************************)
\* the 32-bit count the payload in buf starts with
ArrayCount == I32FromBe(TakeBytes(buf, 4))

\* the bytes one element of the array takes
ElementWidth == CASE tid = 7 -> 1 [] tid = 11 -> 4 [] tid = 12 -> 8

\* the count is negative, or more elements than the bytes after it can hold
BadArrayCount ==
  /\ Len(buf) >= 4
  /\ \/ ArrayCount < 0
     \/ ArrayCount > (Len(buf) - 4) \div ElementWidth

\* C16: for ByteArray, IntArray and LongArray payloads, a 32-bit element
\* count that is negative or larger than the remaining input can hold is
\* rejected with an error, before any storage for the elements is
\* allocated, and without panicking.
C16_Original ==
  npc = "array" /\ BadArrayCount => ppres.err = UnexpectedEof

(***************************************************************************)
(* Claims about the nesting depth (under SpecNbt)                          *)
(***************************************************************************)
RECURSIVE MaxOf(_)
MaxOf(ns) == IF ns = <<>> THEN 0
             ELSE LET rest == MaxOf(Tail(ns)) IN IF Head(ns) > rest THEN Head(ns) ELSE rest

\* how deep the lists and compounds of a tag nest: 0 for a scalar or array
RECURSIVE NestingDepth(_)
NestingDepth(tag) ==
  CASE tag[1] = 9 -> 1 + MaxOf([k \in 1..Len(tag[2]) |-> NestingDepth(tag[2][k])])
    [] tag[1] = 10 ->
         1 + MaxOf([k \in 1..Len(tag[2]) |-> NestingDepth(EntryTag(tag[2][k]))])
    [] OTHER -> 0

\* the maxima a caller could configure, each exceeded by a sampled document
DepthLimits == 1..2

\* C17: the parser imposes a configurable maximum nesting depth:
\* parse_named_tag on input whose lists and compounds nest deeper than the
\* maximum fails with DepthExceeded.
C17_Original ==
  npc = "parsed" /\ how = "whole" /\ Representable(doc) =>
    \A max \in DepthLimits :
      NestingDepth(doc.tag) > max => pres.err.kind = "DepthExceeded"

(***************************************************************************)
(* Claims about writing back what was parsed (under SpecNbt)               *)
(***************************************************************************)
\* the bytes of buf that parse_named_tag consumed
ParsedBytes == TakeBytes(buf, Len(buf) - Len(pres.input))

\* C18: for every byte buffer on which parse_named_tag succeeds, consuming
\* k bytes and returning (name, tag), write_named_tag(name, tag) produces
\* exactly the first k bytes of the buffer.
C18_Original == npc = "rewritten" => nwr = ParsedBytes

(***************************************************************************)
(* Claims about concurrent readers (under SpecReaders)                     *)
(***************************************************************************)
SameData(a, b) == a.kind = b.kind /\ a.err = b.err /\ a.data = b.data

SameNbt(a, b) ==
  /\ a.kind = b.kind /\ a.err = b.err /\ a.name = b.name
  /\ a.tag[1] = b.tag[1] /\ a.tag = b.tag

\* the result a reader holds is the one the same call gives run on its own
AsAlone(r) ==
  IF readers[r].op = "data"
  THEN SameData(readers[r].data, get_chunk_data(file, region, readers[r].x, readers[r].z))
  ELSE SameNbt(readers[r].got,
               get_chunk_nbt(file, region, readers[r].x, readers[r].z, build))

\* C19: get_chunk_data and get_chunk_nbt never modify the Region's header
\* tables or backing bytes, so the reads of concurrent readers on one opened
\* Region, however their steps interleave, return what the same reads return
\* run one after another.
C19_ReadersAgree ==
  /\ [][file' = file /\ region' = region]_vars
  /\ [](\A r \in Readers : readers[r].pc = "done" => AsAlone(r))

\* a reader has its chunk while another is between its map reads and its parse
C19_Witness ==
  /\ readers[1].pc = "done" /\ readers[1].op = "nbt" /\ readers[1].got.kind = "Some"
  /\ readers[2].pc = "read" /\ readers[2].x = readers[1].x /\ readers[2].z = readers[1].z

(***************************************************************************)
(* Claims about the layout of the records (under SpecLayout)               *)
(***************************************************************************)
\* ceil(n / 4096): the least number of sectors that hold n bytes
SectorsFor(n) ==
  CHOOSE k \in 0..(n \div SECTOR_SIZE + 1) :
    k * SECTOR_SIZE >= n /\ (k = 0 \/ (k - 1) * SECTOR_SIZE < n)

\* s_i, counting the chunks from 1: s_1 = 2, s_(i+1) = s_i + ceil((len_i + 5) / 4096)
RECURSIVE StartSector(_)
StartSector(i) ==
  IF i = 1 THEN 2 ELSE StartSector(i - 1) + SectorsFor(klens[i - 1] + 5)

\* the byte after the last byte written for the i-th record
RecordEnd(i) == klay.records[i].start + klay.records[i].written

\* C20: the i-th chunk's record starts at byte s_i * 4096 with s_0 = 2 and
\* s_(i+1) = s_i + ceil((compressedLen_i + 5) / 4096); it is the 4-byte
\* value compressedLen_i + 1, the compression byte 2, the compressed bytes
\* and zero padding up to the next sector boundary; so the records overlap
\* neither each other nor the two header sectors, and the data ends on a
\* sector boundary.
C20_RecordLayout ==
  LET n == Len(klay.records) IN
  /\ \A i \in 1..n :
       LET rec == klay.records[i] IN
       /\ rec.start = StartSector(i) * SECTOR_SIZE
       /\ rec.length_field = klens[i] + 1
       /\ rec.compression = 2
       /\ rec.padding >= 0 /\ rec.padding < SECTOR_SIZE
       /\ rec.written = 4 + 1 + klens[i] + rec.padding
       /\ RecordEnd(i) % SECTOR_SIZE = 0
       /\ rec.start >= 2 * SECTOR_SIZE
       /\ \A j \in 1..(i - 1) : RecordEnd(j) <= rec.start
  /\ klay.current_sector = StartSector(n + 1)
  /\ klay.current_sector * SECTOR_SIZE = IF n = 0 THEN 2 * SECTOR_SIZE ELSE RecordEnd(n)

\* three records laid out: one sector, two sectors, then one that starts at
\* sector 5
C20_Witness ==
  /\ kpc = "done" /\ klens = <<SECTOR_SIZE - 5, SECTOR_SIZE - 4, 2 * SECTOR_SIZE - 6>>
  /\ klay.records[3].start = 5 * SECTOR_SIZE /\ klay.records[3].padding = 1
  /\ klay.current_sector = 7

(***************************************************************************)
(* Claims about the order of the writer's writes (under SpecWriter)        *)
(***************************************************************************)
\* a write that touches the two header sectors
InHeader(w) == w[1] < 2 * SECTOR_SIZE

\* no byte of the two header sectors has been written
HeaderUntouched ==
  /\ \A k \in 1..Len(wlog) : ~InHeader(wlog[k])
  /\ \A i \in DOMAIN wst.file.data : i >= 2 * SECTOR_SIZE

\* the last chunk given for a slot, or 0
LastFor(slot) ==
  LET given == {k \in 1..Len(wchunks) : SlotOf(wchunks[k].x, wchunks[k].z) = slot}
  IN IF given = {} THEN 0 ELSE CHOOSE k \in given : \A j \in given : j <= k

\* bytes 4 * slot .. 4 * slot + 3 of the file are the 3-byte big-endian
\* sector the slot's last chunk was written at and its 1-byte sector count,
\* and zeros for a slot no chunk was given for
LocationRecord(slot) ==
  LET k == LastFor(slot)
      offset == IF k = 0 THEN 0 ELSE wlog[k][1] \div SECTOR_SIZE
      count == IF k = 0 THEN 0 ELSE wlog[k][2] \div SECTOR_SIZE
      at == 4 * slot
  IN /\ ByteAt(wst.file, at) = offset \div 65536
     /\ ByteAt(wst.file, at + 1) = (offset \div 256) % 256
     /\ ByteAt(wst.file, at + 2) = offset % 256
     /\ ByteAt(wst.file, at + 3) = count

\* C21: write_all_chunks writes the two header sectors only after every
\* chunk record has been written: then, at byte 0, the location table (1024
\* records of 3-byte big-endian offset and 1-byte sector count, by slot) and
\* 1024 all-zero timestamps; if writing a chunk record fails, the call
\* returns that error and no header byte has been written.
C21_HeaderLast ==
  /\ \A k \in 1..Len(wlog) : InHeader(wlog[k]) => k = Len(wlog) /\ wdone = Len(wchunks)
  /\ wdone < Len(wchunks) => HeaderUntouched /\ wres # "Ok"
  /\ wpc = "loop" => HeaderUntouched
  /\ wres = "Ok" =>
       /\ wlog[Len(wlog)] = <<0, 2 * SECTOR_SIZE>>
       /\ \A slot \in 0..1023 : LocationRecord(slot)
       /\ \A i \in DOMAIN wst.file.data : i < SECTOR_SIZE \/ i >= 2 * SECTOR_SIZE
       /\ wst.file.len = wst.current_sector * SECTOR_SIZE

\* the header written after the records of two chunks
C21_Witness ==
  /\ wres = "Ok" /\ Len(wchunks) = 2 /\ Len(wlog) = 3
  /\ wlog[3] = <<0, 2 * SECTOR_SIZE>> /\ ByteAt(wst.file, 4 * LastFor(0) - 2) # 0

(***************************************************************************)
(* Claims about the layout of numbers and names (under SpecDocs)           *)
(***************************************************************************)
\* the bytes b read as a big-endian two's-complement number: the first byte
\* is the most significant and carries the sign; eight bytes give [hi, lo]
\* as an i64 is held
BigEndianValue(b) ==
  CASE Len(b) = 1 -> AsSigned(b[1], 8)
    [] Len(b) = 2 -> AsSigned(b[1], 8) * 256 + b[2]
    [] Len(b) = 4 -> AsSigned(b[1], 8) * 16777216 + b[2] * 65536 + b[3] * 256 + b[4]
    [] Len(b) = 8 -> [hi |-> AsSigned(b[1], 8) * 16777216 + b[2] * 65536 + b[3] * 256 + b[4],
                      lo |-> <<b[5] * 256 + b[6], b[7] * 256 + b[8]>>]

\* the number of payload bytes of Byte, Short, Int, Long
NumberWidth(t) == CASE t = 1 -> 1 [] t = 2 -> 2 [] t = 3 -> 4 [] t = 4 -> 8

\* a document whose tag is a Byte, Short, Int or Long, written and not altered
NumberWritten == how = "whole" /\ npc \in {"written", "parsed", "rewritten"} /\ doc.tag[1] \in 1..4

\* C22: parse_tag_payload decodes Byte, Short, Int and Long as big-endian
\* two's complement of 1, 2, 4 and 8 bytes and a name length as a big-endian
\* u16, and write_tag_payload emits the same layout; the bytes
\* 01 00 04 'n' 'a' 'm' 'e' 7F parse to ("name", Byte(127)).
C22_BigEndianNumbers ==
  /\ NumberWritten =>
       LET n == Len(encode_mutf8(doc.name))
           w == NumberWidth(doc.tag[1])
       IN /\ Len(buf) = 3 + n + w
          /\ buf[1] = doc.tag[1]
          /\ buf[2] * 256 + buf[3] = n
          /\ SubSeq(buf, 4, 3 + n) = encode_mutf8(doc.name)
          /\ BigEndianValue(SubSeq(buf, 4 + n, 3 + n + w)) = doc.tag[2]
          /\ npc \in {"parsed", "rewritten"} =>
               /\ pres.err = NoError /\ pres.name = doc.name /\ pres.input = <<>>
               /\ pres.tag[1] = doc.tag[1]
               /\ pres.tag[2] = BigEndianValue(SubSeq(buf, 4 + n, 3 + n + w))
  /\ (npc = "parsed" /\ buf = NamedByteExample) =>
       /\ pres.err = NoError /\ pres.name = <<110, 97, 109, 101>> /\ pres.input = <<>>
       /\ pres.tag[1] = 1 /\ pres.tag[2] = 127

\* the example bytes, given as such, parsed
C22_Witness ==
  /\ npc = "parsed" /\ how = "raw" /\ buf = NamedByteExample
  /\ pres.name = <<110, 97, 109, 101>> /\ pres.tag[1] = 1

(***************************************************************************)
(* Claims about the encoding of text (under SpecText)                      *)
(***************************************************************************)
\* the UTF-16 code units of a char: itself below 0x10000, else the high and
\* the low surrogate of its offset from 0x10000
UnitsOfChar(c) ==
  IF c < 65536 THEN <<c>>
  ELSE <<55296 + ((c - 65536) \div 1024), 56320 + ((c - 65536) % 1024)>>

\* the form of one code unit: C0 80 for 0, one byte below 0x80, two bytes
\* below 0x800, three bytes otherwise
UnitForm(u) ==
  IF u = 0 THEN <<192, 128>>
  ELSE IF u < 128 THEN <<u>>
  ELSE IF u < 2048 THEN <<192 + (u \div 64), 128 + (u % 64)>>
  ELSE <<224 + (u \div 4096), 128 + ((u \div 64) % 64), 128 + (u % 64)>>

\* the forms of the code units of a text, one after the other
TextForm(s) ==
  Flatten([k \in 1..Len(s) |->
             LET us == UnitsOfChar(s[k]) IN Flatten([j \in 1..Len(us) |-> UnitForm(us[j])])])

\* C23: encode_mutf8 encodes each UTF-16 code unit independently (C0 80 for
\* 0, one byte below 0x80, two bytes below 0x800, three bytes otherwise), so
\* U+1F600 yields six bytes, and its output never contains the byte 00.
C23_EncodesByCodeUnit ==
  tpc \in {"encoded", "text_back"} =>
    /\ mbytes = TextForm(str)
    /\ \A i \in 1..Len(mbytes) : mbytes[i] # 0
    /\ str = <<128512>> => mbytes = <<237, 160, 189, 237, 184, 128>>

\* NUL and U+1F600 encoded: C0 80, then the two surrogates in three bytes each
C23_Witness ==
  /\ tpc = "encoded" /\ str = <<0, 128512>>
  /\ mbytes = <<192, 128, 237, 160, 189, 237, 184, 128>>

(***************************************************************************)
(* Claims about the layout of containers (under SpecDocs)                  *)
(***************************************************************************)
\* the number of bytes before the k-th element of a list's payloads, and
\* before the k-th entry of a compound
ElementStart(tag, k) == SumLen([j \in 1..(k - 1) |-> ElementBytes(tag, j)])

EntryStart(tag, k) == SumLen([j \in 1..(k - 1) |-> EntryBytes(tag, j)])

\* b is the payload of tag laid out as the format has it: a compound's
\* entries in their order, each its type id, its name and its payload, then
\* one zero byte; a list's element type (0 when empty, else the first
\* element's), its 32-bit count and the payloads in their order
RECURSIVE LaidOut(_, _)
LaidOut(tag, b) ==
  CASE tag[1] = 10 ->
         LET n == Len(tag[2]) IN
         /\ Len(b) = EntryStart(tag, n + 1) + 1
         /\ b[Len(b)] = 0
         /\ \A k \in 1..n :
              LET at == EntryStart(tag, k)
                  name == write_nbt_string(EntryName(tag[2][k]))
              IN /\ b[at + 1] = get_type_id(EntryTag(tag[2][k]))
                 /\ SubSeq(b, at + 2, at + 1 + Len(name)) = name
                 /\ LaidOut(EntryTag(tag[2][k]),
                            SubSeq(b, at + 2 + Len(name), EntryStart(tag, k + 1)))
    [] tag[1] = 9 ->
         LET n == Len(tag[2]) IN
         /\ Len(b) = 5 + ElementStart(tag, n + 1)
         /\ b[1] = IF n = 0 THEN 0 ELSE get_type_id(tag[2][1])
         /\ BigEndianValue(SubSeq(b, 2, 5)) = n
         /\ \A k \in 1..n :
              LaidOut(tag[2][k],
                      SubSeq(b, 5 + ElementStart(tag, k) + 1, 5 + ElementStart(tag, k + 1)))
    [] OTHER -> b = write_tag_payload(tag)

\* the bytes written after the document's type id and name
PayloadWritten == DropBytes(buf, 1 + Len(write_nbt_string(doc.name)))

\* C24: write_tag_payload writes a Compound as its entries in insertion
\* order (type id, name, payload) followed by exactly one zero byte, an empty
\* List as element type 0 with count 0, and a non-empty List as the first
\* element's type id, the 32-bit count and the payloads in order.
C24_ContainerLayout ==
  /\ (how = "whole" /\ npc = "written" /\ doc.tag[1] \in {9, 10}) =>
       LaidOut(doc.tag, PayloadWritten)
  /\ (how = "whole" /\ npc = "written" /\ doc.tag[1] = 9 /\ doc.tag[2] = <<>>) =>
       PayloadWritten = <<0, 0, 0, 0, 0>>

\* a compound of two entries, an Int and then an empty list, written
C24_Witness ==
  /\ how = "whole" /\ npc = "written" /\ doc.name = <<97>>
  /\ doc.tag[1] = 10 /\ Len(doc.tag[2]) = 2 /\ EntryTag(doc.tag[2][2])[1] = 9
  /\ PayloadWritten = <<3, 0, 1, 120, 0, 0, 0, 123, 9, 0, 4, 192, 128, 195, 169,
                        0, 0, 0, 0, 0, 0>>

(***************************************************************************)
(* Claims about the length prefixes (under SpecPrefix)                     *)
(***************************************************************************)
\* the number a prefix holds: a big-endian u16, or a big-endian i32
PrefixValue(b) == IF Len(b) = 2 THEN b[1] * 256 + b[2] ELSE BigEndianValue(b)

\* C25 as stated: every length prefix the encoder writes equals the content
\* written after it: the 16-bit prefix of write_nbt_string equals the number
\* of modified UTF-8 bytes, the 32-bit count of a ByteArray, IntArray,
\* LongArray or List equals the number of elements, and no prefix is
\* truncated while the full content is emitted.
C25_Original == xpc = "written" => PrefixValue(xprefix) = xafter

(***************************************************************************)
(* Claims about list payloads (under SpecList)                             *)
(***************************************************************************)
\* the element type and the 32-bit count the list payload in buf starts with
ListElementType == buf[1]

ListCount == I32FromBe(SubSeq(buf, 2, 5))

\* the fewest bytes one element of a type takes: the width of a number, the
\* count of an array, the length of a string, the header of a list, the
\* closing zero of a compound
LeastWidth(t) ==
  CASE t = 1 -> 1 [] t = 2 -> 2 [] t = 3 -> 4 [] t = 4 -> 8 [] t = 5 -> 4 [] t = 6 -> 8
    [] t = 7 -> 4 [] t = 8 -> 2 [] t = 9 -> 5 [] t = 10 -> 1 [] t = 11 -> 4 [] t = 12 -> 4

\* a list payload whose count is negative, or more elements than the bytes
\* after it can hold
BadListCount ==
  /\ Len(buf) >= 5 /\ ListElementType \in 1..12
  /\ \/ ListCount < 0
     \/ ListCount > (Len(buf) - 5) \div LeastWidth(ListElementType)

\* C26: parse_tag_payload on a List whose count is negative or larger than
\* the remaining input can hold fails with an error, without panicking and
\* without reserving storage proportional to the count.
C26_Original ==
  npc = "list" /\ BadListCount =>
    /\ ppres.err.kind \in {"UnexpectedEof", "InvalidTag", "InvalidString"}
    /\ ~ListCapacity(buf).huge /\ ListCapacity(buf).n <= Len(buf) - 5

\* C27: parse_tag_payload rejects a List whose element-type byte is outside
\* 0..12 with InvalidTag(element type), whatever the count, 0 included.
C27_Original ==
  npc = "list" /\ Len(buf) >= 5 /\ ListElementType \notin 0..12 =>
    ppres.err = InvalidTag(ListElementType)

(***************************************************************************)
(* Claims about names repeated in a compound (under SpecDocs)              *)
(***************************************************************************)
\* no compound of the tag, at any depth, holds a name twice
RECURSIVE DistinctNames(_)
DistinctNames(tag) ==
  CASE tag[1] = 10 ->
         /\ \A i, j \in 1..Len(tag[2]) :
              EntryName(tag[2][i]) = EntryName(tag[2][j]) => i = j
         /\ \A k \in 1..Len(tag[2]) : DistinctNames(EntryTag(tag[2][k]))
    [] tag[1] = 9 -> \A k \in 1..Len(tag[2]) : DistinctNames(tag[2][k])
    [] OTHER -> TRUE

\* the names of a compound's entries, in their order
NamesOf(tag) == [k \in 1..Len(tag[2]) |-> EntryName(tag[2][k])]

\* C28: when a Compound's bytes hold a name twice, the Compound returned
\* holds that name once, with the value of its last occurrence at the place
\* of its first; distinct names keep the order of the bytes.
C28_LastValueFirstPlace ==
  /\ (npc = "parsed" /\ pres.err = NoError) => DistinctNames(pres.tag)
  /\ (npc = "parsed" /\ how = "whole" /\ doc.tag[1] = 10 /\ Representable(doc)) =>
       pres.err = NoError /\ pres.tag[1] = 10 /\ NamesOf(pres.tag) = NamesOf(doc.tag)
  /\ (npc = "parsed" /\ buf = DuplicateNameExample) =>
       /\ pres.err = NoError /\ pres.tag[1] = 10
       /\ pres.tag[2] = <<Entry(<<97>>, Tag(1, 3)), Entry(<<98>>, Tag(1, 2)),
                          Entry(<<99>>, Tag(1, 4))>>

\* the bytes holding a = 1, b = 2, a = 3, c = 4, parsed
C28_Witness ==
  /\ npc = "parsed" /\ buf = DuplicateNameExample /\ pres.err = NoError
  /\ NamesOf(pres.tag) = <<<<97>>, <<98>>, <<99>>>>

(***************************************************************************)
(* Claims about chunks of one slot (under SpecRegion)                      *)
(***************************************************************************)
\* the NBT bytes and the compressed payload of the k-th chunk given
ChunkNbt(k) == write_named_tag(chunks[k].name, chunks[k].tag)

ChunkPayload(k) == ZlibEncode(ChunkNbt(k))

\* the sectors the k-th record takes, and the sector it starts at: 2 for
\* the first, each next one where the one before ends
ChunkSectors(k) == SectorsFor(Len(ChunkPayload(k)) + 5)

RECURSIVE ChunkStart(_)
ChunkStart(k) == IF k = 1 THEN 2 ELSE ChunkStart(k - 1) + ChunkSectors(k - 1)

\* the file holds the k-th record at its sectors: the length field, the
\* compression byte 2 and the payload
RecordHeld(k) ==
  LET at == ChunkStart(k) * SECTOR_SIZE
      n == Len(ChunkPayload(k))
  IN /\ at + 5 + n <= file.len
     /\ BigEndianValue(Slice(file, at, at + 4)) = n + 1
     /\ ByteAt(file, at + 4) = 2
     /\ Slice(file, at + 5, at + 5 + n) = ChunkPayload(k)

\* the j-th chunk is the last one given for its slot, and not the only one
LaterOfSlot(j) ==
  /\ \E i \in 1..(j - 1) : ChunkSlot(chunks[i]) = ChunkSlot(chunks[j])
  /\ \A k \in (j + 1)..Len(chunks) : ChunkSlot(chunks[k]) # ChunkSlot(chunks[j])

\* the header's location of the j-th chunk's slot names the j-th record
PointsAt(j) ==
  LET at == 4 * ChunkSlot(chunks[j]) IN
  /\ ByteAt(file, at) * 65536 + ByteAt(file, at + 1) * 256 + ByteAt(file, at + 2)
       = ChunkStart(j)
  /\ ByteAt(file, at + 3) = ChunkSectors(j)

\* C29: when two chunks of one write_all_chunks call map to the same slot,
\* both records are written, to disjoint sector ranges, the header's
\* location of the slot points at the later chunk's record, and reading the
\* slot returns the later chunk.
C29_LaterChunkWins ==
  origin = "writer" /\ rpc # "chunks" =>
    \A j \in 1..Len(chunks) : LaterOfSlot(j) =>
      /\ \A i \in 1..j : ChunkSlot(chunks[i]) = ChunkSlot(chunks[j]) =>
           /\ RecordHeld(i)
           /\ i < j => ChunkStart(i) + ChunkSectors(i) <= ChunkStart(j)
      /\ PointsAt(j)
      /\ (rpc = "data" /\ SlotOf(query[1], query[2]) = ChunkSlot(chunks[j])) =>
           gotData.kind = "Some" /\ gotData.data = ChunkNbt(j)
      /\ (rpc = "nbt" /\ SlotOf(query[1], query[2]) = ChunkSlot(chunks[j])
          /\ Representable([name |-> chunks[j].name, tag |-> chunks[j].tag])) =>
           ReadsBack(chunks[j])

\* (0, 0) holding End and then (-2147483648, 32) holding the test chunk, both
\* of slot 0, written; the slot read at (0, 0) gives the test chunk
C29_Witness ==
  /\ origin = "writer" /\ rpc = "nbt" /\ Len(chunks) = 2 /\ LaterOfSlot(2)
  /\ chunks[1].x = 0 /\ chunks[1].tag[1] = 0 /\ chunks[2].x = MinI32 /\ chunks[2].tag[1] = 10
  /\ query = <<0, 0>> /\ got.kind = "Some" /\ got.name = ChunkName /\ got.tag[1] = 10

(***************************************************************************)
(* Claims about termination (under SpecSteps)                              *)
(***************************************************************************)
\* the last read either failed and left the input as it was, or took exactly
\* the bytes asked for off its front
ReadExact ==
  qread # NoRead =>
    IF qread.ok THEN qdata = DropBytes(qin, Len(qin) - qread.before + qread.width)
                     /\ Len(qdata) = qread.before - qread.width
    ELSE Len(qdata) = qread.before /\ qpc = "done"

\* an iteration of a Compound loop starts with less input than the
\* iteration before it
CompoundConsumes ==
  \A k \in 1..Len(qtasks) :
    qtasks[k][1] = "entry" /\ qtasks[k][2] >= 0 => Len(qdata) < qtasks[k][2]

\* a List loop has run no more often than its count
ListWithinCount ==
  \A k \in 1..Len(qtasks) :
    qtasks[k][1] = "list" => qtasks[k][3] >= 0 /\ qtasks[k][3] <= qtasks[k][4]

\* C30: parse_named_tag terminates on every finite input: the input still
\* to read never grows, each read of the ByteReader either fails without
\* consuming or shrinks the input by exactly the width read, every iteration
\* of a Compound loop consumes at least one byte, and every List loop runs at
\* most its count.
C30_Terminates ==
  /\ [](ReadExact /\ CompoundConsumes /\ ListWithinCount)
  /\ [][Len(qdata') <= Len(qdata)]_vars
  /\ <>(qpc = "done")

\* the test document read to its end: a compound of six entries, a list of
\* three strings and a compound inside it
C30_Witness ==
  /\ qpc = "done" /\ qres = NoError /\ qdata = <<>>
  /\ qin = write_named_tag(<<97>>, TestDocument)

=============================================================================
